---- MODULE Spec2Model ----
(***************************************************************************)
(* State-machine model of the OpenMV face recognition appliance            *)
(* (src/人脸识别-3.py, the class-based draft).                             *)
(*                                                                         *)
(* Nine specifications share the variables below:                          *)
(*   Spec        FaceRecognitionApp: the menus, recognition, registration  *)
(*               with its liveness gate, user management, settings, and    *)
(*               UserManager with its backing file.                        *)
(*   SpecMatch   UserManager.find_user_by_features as a pure function of   *)
(*               store, probe and threshold.                               *)
(*   SpecButton  one Button object polled against a pin and the ms clock.  *)
(*   SpecMenu    Menu.show for a menu of n options.                        *)
(*   SpecStore   UserManager and the handlers of the user menu called      *)
(*               with any id, the file damaged or reloaded between calls.  *)
(*   SpecFace    the face taken from the list detect_faces returns.        *)
(*   SpecLive    _liveness_detection with the sleep of the program, under  *)
(*               weak fairness of its pass.                                *)
(*   SpecInput   ChineseInput.input and the assignment of its result by    *)
(*               the handler that called it.                               *)
(*   SpecDraft1  the first, function-based draft (src/人脸识别-1.py): its   *)
(*               main loop, registration_mode and user management.         *)
(*                                                                         *)
(* Numbers.  Descriptor elements are floats in the program; the model      *)
(* computes with exact rationals <<n, d>> (d > 0, lowest terms), so a      *)
(* mean is the exact quotient.  A cosine similarity dot/(|a|*|b|) is       *)
(* irrational in general; the model carries it as its signed square        *)
(* sgn(x)*x^2, an exact rational, which orders values exactly as x does.   *)
(* Rounding in float arithmetic is not modelled; the decimal text of a     *)
(* float in the JSON file is.                                              *)
(***************************************************************************)
EXTENDS Integers, Sequences, FiniteSets, TLC

VARIABLES
    \* ---- FaceRecognitionApp / UserManager / Config ----
    pc,               \* where the single thread of control is
    selected,         \* Menu.selected of the menu being shown
    users,            \* UserManager.users, in dict iteration order
    file,             \* content of Config.DB_PATH
    now,              \* time.ticks_ms()
    last_state,       \* Button.last_state, per button
    name,             \* registration: the entered name
    samples,          \* registration: accepted sample descriptors
    msg,              \* text of the last Display.show_message
    start_time,       \* _liveness_detection: start_time
    eyes_detected,    \* _liveness_detection: eyes_detected
    edges,            \* observer: buttons whose is_pressed fired in the last step
    prev_selected,    \* observer: Menu.selected before the last step
    choice,           \* what the last Menu.show returned
    liveness_timeout, \* Config.LIVENESS_TIMEOUT
    cursor,           \* Menu.selected of the sub-menu being shown
    user_id,          \* the user_id argument of the user-management handlers
    current_threshold, \* _adjust_threshold: current_threshold, in tenths
    \* ---- find_user_by_features (SpecMatch) ----
    probe,            \* the features argument
    threshold,        \* the threshold argument, in tenths
    best_match,       \* the returned id
    label,            \* the text draw_face_info put on the last face ("": none)
    \* ---- Button (SpecButton) ----
    pin,              \* level of the pin: 0 = pressed (pull-up)
    pressed_time,     \* Button.pressed_time
    ret,              \* what the last call returned
    lowFor,           \* observer: ms the pin was low in the latest press
    nLows,            \* observer: presses (high-to-low transitions) so far
    shortFired,       \* observer: is_pressed returned True in this press
    longFired,        \* observer: is_long_pressed True results in this press
    pressedAfterLong, \* observer: is_pressed True after a long press fired
    \* ---- Menu (SpecMenu) ----
    options,          \* len(Menu.options)
    action_map,       \* the keys of Menu.action_map
    \* ---- the camera (SpecFace, SpecLive) ----
    frame,            \* the faces detect_faces returned for the snapshot
    chosen,           \* the face the sample loop took from them
    blink_seen,       \* observer: "none", "eyes" (a snapshot showed a face
                      \* with eyes), "blinked" (and a later one a face without)
    \* ---- the firmware ----
    float_repr,       \* how the build prints a float: "shortest" or "seven_digits"
    \* ---- the name input (SpecInput) ----
    current_text,     \* ChineseInput.input: the characters typed so far
    page,             \* ChineseInput.input: the page of CHAR_SETS on the screen
    \* ---- the first draft (SpecDraft1) ----
    user_db           \* src/人脸识别-1.py: the global dict of the records

vars == <<pc, selected, users, file, now, last_state, name, samples, msg,
          start_time, eyes_detected, edges, prev_selected, choice,
          liveness_timeout, cursor, user_id, current_threshold,
          probe, threshold, best_match, label,
          pin, pressed_time, ret, lowFor, nLows, shortFired, longFired,
          pressedAfterLong,
          options, action_map, frame, chosen, blink_seen, float_repr,
          current_text, page, user_db>>

None == "None"
\* a descriptor that is falsy in Python: None, or an empty list
NoFeatures == <<>>

(***************************************************************************)
(* Exact rationals.                                                        *)
(***************************************************************************)
Abs(x) == IF x < 0 THEN -x ELSE x

RECURSIVE GCD(_, _)
GCD(a, b) == IF b = 0 THEN a ELSE GCD(b, a % b)

\* n/d in lowest terms with a positive denominator
Rat(n, d) ==
    LET s == IF d < 0 THEN -1 ELSE 1
        g == GCD(Abs(n), Abs(d))
    IN  <<(s * n) \div g, (s * d) \div g>>

RInt(n) == <<n, 1>>
RAdd(a, b) == Rat(a[1] * b[2] + b[1] * a[2], a[2] * b[2])
RMul(a, b) == Rat(a[1] * b[1], a[2] * b[2])
RDiv(a, b) == Rat(a[1] * b[2], a[2] * b[1])
RGreater(a, b) == a[1] * b[2] > b[1] * a[2]
RZero == RInt(0)

\* a vector of integers as a descriptor
Vec(s) == [i \in 1..Len(s) |-> RInt(s[i])]

Min(a, b) == IF a < b THEN a ELSE b

RECURSIVE RSum(_, _)
\* sum(f(i) for i in 1..n), left to right
RSum(f, n) == IF n = 0 THEN RZero ELSE RAdd(RSum(f, n - 1), f[n])

(***************************************************************************)
(* UserManager._cosine_similarity.  zip() stops at the shorter vector; the *)
(* norms run over each whole vector.  The value returned is the signed     *)
(* square of dot/(norm_a*norm_b): sgn(dot)*dot^2/(|a|^2*|b|^2).            *)
(***************************************************************************)
SignedSquare(x) == <<x[1] * Abs(x[1]), x[2] * x[2]>>

\* (a version that tests and divides by the norm of feat1 alone)
cosine_one_norm(feat1, feat2) ==
    LET m   == Min(Len(feat1), Len(feat2))
        dot_product == RSum([i \in 1..m |-> RMul(feat1[i], feat2[i])], m)
        sq_a == RSum([i \in 1..Len(feat1) |-> RMul(feat1[i], feat1[i])], Len(feat1))
    IN  IF sq_a = RZero
        THEN RZero
        ELSE RDiv(SignedSquare(dot_product), RMul(sq_a, sq_a))

cosine_similarity(feat1, feat2) ==
    LET m   == Min(Len(feat1), Len(feat2))
        dot_product == RSum([i \in 1..m |-> RMul(feat1[i], feat2[i])], m)
        sq_a == RSum([i \in 1..Len(feat1) |-> RMul(feat1[i], feat1[i])], Len(feat1))
        sq_b == RSum([i \in 1..Len(feat2) |-> RMul(feat2[i], feat2[i])], Len(feat2))
    IN  IF sq_a = RZero \/ sq_b = RZero
        THEN RZero
        ELSE RDiv(SignedSquare(dot_product), RMul(sq_a, sq_b))

\* a threshold given in tenths (5 is 0.5), on the scale of cosine_similarity
ThresholdSim(t) == SignedSquare(Rat(t, 10))

\* "similarity > highest_similarity" (and the comparison written ">=")
SimGreaterOrEqual(similarity, highest) == ~RGreater(highest, similarity)
SimGreater(similarity, highest) == RGreater(similarity, highest)

(***************************************************************************)
(* UserManager.find_user_by_features: the loop over self.users.items(),    *)
(* from record i on, with the running best_match and highest_similarity.   *)
(***************************************************************************)
\* (a loop that forgets to raise highest_similarity: the last record above
\* the threshold wins)
RECURSIVE FindFromKeepsThreshold(_, _, _, _, _)
FindFromKeepsThreshold(store, features, i, best, highest) ==
    IF i > Len(store) THEN best
    ELSE LET similarity == cosine_similarity(features, store[i].features)
         IN  IF SimGreater(similarity, highest)
             THEN FindFromKeepsThreshold(store, features, i + 1, store[i].id, highest)
             ELSE FindFromKeepsThreshold(store, features, i + 1, best, highest)

RECURSIVE FindFrom(_, _, _, _, _)
FindFrom(store, features, i, best, highest) ==
    IF i > Len(store) THEN best
    ELSE LET similarity == cosine_similarity(features, store[i].features)
         IN  IF SimGreater(similarity, highest)
             THEN FindFrom(store, features, i + 1, store[i].id, similarity)
             ELSE FindFrom(store, features, i + 1, best, highest)

find_user_by_features(store, features, t) ==
    IF features = NoFeatures THEN None
    ELSE FindFrom(store, features, 1, None, ThresholdSim(t))

(***************************************************************************)
(* Variable groups and the values the variables a specification does not   *)
(* use are parked at.                                                      *)
(***************************************************************************)
Buttons == {"up", "down", "select", "back"}

appOnly    == <<pc, file, name, samples, msg, start_time, eyes_detected,
                liveness_timeout, cursor, user_id, current_threshold,
                float_repr, current_text, page, user_db, frame, chosen,
                blink_seen>>
matchOnly  == <<probe, threshold, best_match, label>>
buttonOnly == <<pin, pressed_time, lowFor, nLows, shortFired, longFired,
                pressedAfterLong>>

menuOnly   == <<edges, prev_selected, choice, action_map>>

Showing == [kind |-> "showing", value |-> 0]
\* no face taken from the snapshot
NoFace == [x |-> 0, w |-> 0, h |-> 0]
MenuParked ==
    edges = {} /\ prev_selected = 0 /\ choice = Showing /\ action_map = {}

InputParked == current_text = <<>> /\ page = 0
DraftParked == user_db = <<>>
AppParked ==
    /\ pc = "off" /\ file = [ok |-> FALSE, data |-> <<>>] /\ name = "" /\ samples = <<>>
    /\ msg = "" /\ start_time = 0 /\ eyes_detected = FALSE
    /\ liveness_timeout = 0
    /\ cursor = 0 /\ user_id = None /\ current_threshold = 0
    /\ float_repr = "seven_digits" /\ InputParked /\ DraftParked
    /\ frame = <<>> /\ chosen = NoFace /\ blink_seen = "none"
MatchParked ==
    probe = NoFeatures /\ threshold = 5 /\ best_match = None /\ label = ""
ButtonParked ==
    /\ pin = 1 /\ pressed_time = 0 /\ lowFor = 0 /\ nLows = 0
    /\ shortFired = FALSE /\ longFired = 0 /\ pressedAfterLong = FALSE

NoCall == <<"none", FALSE>>

(***************************************************************************)
(* A user record as UserManager.add_user builds it.                        *)
(***************************************************************************)
UserRecord(id, nm, features, at, count) ==
    [id |-> id, name |-> nm, features |-> features,
     registered_at |-> at, samples_count |-> count]

Ids(store) == {store[i].id : i \in 1..Len(store)}

(***************************************************************************)
(* SpecMatch: find_user_by_features applied to bounded inputs.             *)
(***************************************************************************)
MaxStored == 2

StoredFeatures ==
    {Vec(<<1, 0>>), Vec(<<0, 1>>), Vec(<<3, 4>>), Vec(<<0, 0>>),
     Vec(<<-1, 0>>), <<Rat(1, 2), Rat(1, 2)>>, Vec(<<1>>)}
Probes == StoredFeatures \cup {NoFeatures}
Thresholds == {-10, 0} \cup 1..10

\* the stores of n records with ids 1..n in iteration order
StoresOf(n) ==
    {[i \in 1..n |-> UserRecord(ToString(i), "A", f[i], 0, 1)] : f \in [1..n -> StoredFeatures]}

InitMatch ==
    /\ \E n \in 0..MaxStored : users \in StoresOf(n)
    /\ probe \in Probes
    /\ threshold \in Thresholds
    /\ best_match = "pending" /\ label = ""
    /\ AppParked /\ ButtonParked /\ MenuParked
    /\ selected = 0 /\ options = 1 /\ now = 0 /\ ret = NoCall
    /\ last_state = [b \in Buttons |-> 1]

Find ==
    /\ best_match = "pending"
    /\ best_match' = find_user_by_features(users, probe, threshold)
    /\ UNCHANGED <<users, probe, threshold, label>>
    /\ UNCHANGED <<appOnly, buttonOnly, menuOnly, selected, options, now, ret,
                   last_state>>

NextMatch == Find

SpecMatch == InitMatch /\ [][NextMatch]_vars

\* the similarity of stored record i to the probe
SimOf(i) == cosine_similarity(probe, users[i].features)
Returned == best_match \notin {"pending", None}

\* C2: find_user_by_features never returns an id whose similarity to the
\* probe is less than or equal to the threshold; equality does not match.
C2_NoMatchAtOrBelowThreshold ==
    Returned =>
        \A i \in 1..Len(users) :
            users[i].id = best_match =>
                /\ RGreater(SimOf(i), ThresholdSim(threshold))
                /\ SimOf(i) # ThresholdSim(threshold)

\* C2 witness: an id was returned although an earlier record sits exactly
\* on the threshold
C2_Witness ==
    /\ Returned /\ threshold \in 1..10
    /\ \E i, j \in 1..Len(users) :
        /\ i < j /\ users[j].id = best_match
        /\ SimOf(i) = ThresholdSim(threshold)

\* C3: when some record is strictly above the threshold, the id returned is
\* that of a record of maximal similarity, and of the first such record in
\* the store's iteration order.
C3_FirstMaximum ==
    (/\ best_match # "pending"
     /\ probe # NoFeatures
     /\ \E i \in 1..Len(users) : RGreater(SimOf(i), ThresholdSim(threshold)))
    => \E i \in 1..Len(users) :
        /\ users[i].id = best_match
        /\ \A j \in 1..Len(users) : ~RGreater(SimOf(j), SimOf(i))
        /\ \A j \in 1..(i - 1) : RGreater(SimOf(i), SimOf(j))

\* C3 witness: two records tie for the maximum above the threshold and the
\* first is returned
C3_Witness ==
    /\ Returned /\ threshold \in 1..10
    /\ \E i, j \in 1..Len(users) :
        /\ i < j /\ users[i].id = best_match
        /\ SimOf(i) = SimOf(j)
        /\ RGreater(SimOf(i), ThresholdSim(threshold))

(***************************************************************************)
(* Button.  is_pressed and is_long_pressed read the pin, and on a falling  *)
(* edge (pin low, last_state 1) sleep for the debounce time and read it    *)
(* again.  The operators below are the methods as functions of last_state  *)
(* and of the two levels read; the actions supply the levels.              *)
(***************************************************************************)
BUTTON_DEBOUNCE == 20
long_press_threshold == 1000

\* the method reaches time.sleep_ms(self.debounce) and the second read
Debounces(ls, first) == first = 0 /\ ls = 1

\* Button.is_pressed: the value returned (and a version without the
\* second read)
is_pressed_unconfirmed(ls, first, second) == first = 0 /\ ls = 1
is_pressed(ls, first, second) == first = 0 /\ ls = 1 /\ second = 0

\* Button.is_pressed and Button.is_long_pressed: last_state after a call
\* that does not fire a long press
next_last_state(ls, first, second) ==
    IF first = 0 /\ ls = 1 THEN (IF second = 0 THEN 0 ELSE ls)
    ELSE IF first = 1 /\ ls = 0 THEN 1
    ELSE ls

\* Button.is_long_pressed: the value returned; t is time.ticks_ms() at the
\* comparison, pt is self.pressed_time
is_long_pressed(ls, first, t, pt) ==
    first = 0 /\ ls = 0 /\ (t - pt) > long_press_threshold

(***************************************************************************)
(* SpecButton: the Button on "up" against its pin and the clock.  Between  *)
(* calls time passes in steps of TimeSteps; while a method sleeps the pin  *)
(* holds, is released (after BounceMs), or is released and pressed again   *)
(* (low again for BounceMs when the sleep ends).                           *)
(***************************************************************************)
MaxClock == 1100
TimeSteps == {20, 500}
BounceMs == 10
DuringSleep == {"hold", "release", "rebounce"}
MaxCount == 2

TheButton == "up"
Capped(n) == Min(n, MaxCount)
LowCapped(n) == Min(n, BUTTON_DEBOUNCE)

InitButton ==
    /\ pin = 1 /\ now = 0 /\ pressed_time = 0
    /\ last_state = [b \in Buttons |-> 1]
    /\ ret = NoCall
    /\ lowFor = 0 /\ nLows = 0
    /\ shortFired = FALSE /\ longFired = 0 /\ pressedAfterLong = FALSE
    /\ AppParked /\ MatchParked /\ MenuParked
    /\ users = <<>> /\ selected = 0 /\ options = 1

buttonFrame == <<appOnly, matchOnly, menuOnly, users, selected, options>>

TimePasses ==
    \E d \in TimeSteps :
        /\ now + d <= MaxClock
        /\ now' = now + d
        /\ lowFor' = IF pin = 0 THEN LowCapped(lowFor + d) ELSE lowFor
        /\ UNCHANGED <<pin, pressed_time, last_state, ret, nLows, shortFired,
                       longFired, pressedAfterLong, buttonFrame>>

PinFalls ==
    /\ pin = 1
    /\ pin' = 0
    /\ nLows' = Capped(nLows + 1)
    /\ lowFor' = 0 /\ shortFired' = FALSE /\ longFired' = 0
    /\ pressedAfterLong' = FALSE
    /\ UNCHANGED <<now, pressed_time, last_state, ret, buttonFrame>>

PinRises ==
    /\ pin = 0
    /\ pin' = 1
    /\ UNCHANGED <<now, pressed_time, last_state, ret, lowFor, nLows,
                   shortFired, longFired, pressedAfterLong, buttonFrame>>

\* what the pin does while the method sleeps: the level at the second read
\* and the observers of the press
SleepEffect(how) ==
    /\ pin' = IF how = "release" THEN 1 ELSE 0
    /\ now' = now + BUTTON_DEBOUNCE
    /\ lowFor' = CASE how = "hold" -> LowCapped(lowFor + BUTTON_DEBOUNCE)
                   [] how = "release" -> LowCapped(lowFor + BounceMs)
                   [] how = "rebounce" -> BounceMs
    /\ nLows' = IF how = "rebounce" THEN Capped(nLows + 1) ELSE nLows

CallIsPressed ==
    LET ls == last_state[TheButton] IN
    IF Debounces(ls, pin)
    THEN \E how \in DuringSleep :
            /\ now + BUTTON_DEBOUNCE <= MaxClock
            /\ SleepEffect(how)
            /\ last_state' = [last_state EXCEPT ![TheButton] = next_last_state(ls, pin, pin')]
            /\ pressed_time' = IF pin' = 0 THEN now' ELSE pressed_time
            /\ ret' = <<"is_pressed", is_pressed(ls, pin, pin')>>
            /\ shortFired' = IF how = "rebounce" THEN is_pressed(ls, pin, pin')
                             ELSE shortFired \/ is_pressed(ls, pin, pin')
            /\ longFired' = IF how = "rebounce" THEN 0 ELSE longFired
            /\ pressedAfterLong' =
                    IF how = "rebounce" THEN FALSE
                    ELSE pressedAfterLong \/ (is_pressed(ls, pin, pin') /\ longFired > 0)
            /\ UNCHANGED buttonFrame
    ELSE /\ last_state' = [last_state EXCEPT ![TheButton] = next_last_state(ls, pin, pin)]
         /\ ret' = <<"is_pressed", is_pressed(ls, pin, pin)>>
         /\ UNCHANGED <<pin, now, pressed_time, lowFor, nLows, shortFired,
                        longFired, pressedAfterLong, buttonFrame>>

CallIsLongPressed ==
    LET ls == last_state[TheButton] IN
    IF Debounces(ls, pin)
    THEN \E how \in DuringSleep :
            /\ now + BUTTON_DEBOUNCE <= MaxClock
            /\ SleepEffect(how)
            /\ last_state' = [last_state EXCEPT ![TheButton] = next_last_state(ls, pin, pin')]
            /\ pressed_time' = IF pin' = 0 THEN now' ELSE pressed_time
            /\ ret' = <<"is_long_pressed", FALSE>>
            /\ shortFired' = IF how = "rebounce" THEN FALSE ELSE shortFired
            /\ longFired' = IF how = "rebounce" THEN 0 ELSE longFired
            /\ pressedAfterLong' = IF how = "rebounce" THEN FALSE ELSE pressedAfterLong
            /\ UNCHANGED buttonFrame
    ELSE LET fires == is_long_pressed(ls, pin, now, pressed_time) IN
         /\ last_state' = [last_state EXCEPT ![TheButton] =
                               IF fires THEN 1 ELSE next_last_state(ls, pin, pin)]
         /\ ret' = <<"is_long_pressed", fires>>
         /\ longFired' = IF fires THEN Capped(longFired + 1) ELSE longFired
         /\ UNCHANGED <<pin, now, pressed_time, lowFor, nLows, shortFired,
                        pressedAfterLong, buttonFrame>>

NextButton ==
    \/ TimePasses
    \/ PinFalls
    \/ PinRises
    \/ CallIsPressed
    \/ CallIsLongPressed

SpecButton == InitButton /\ [][NextButton]_vars

\* C6: within one physical press, is_long_pressed returns True at most once
\* and is_pressed does not return True once the long press has fired.
C6_OneLongPressNoTrailingPressed ==
    longFired <= 1 /\ ~pressedAfterLong

\* C7: when the only activity of the pin is one low pulse shorter than the
\* debounce time, is_pressed has not returned True.
C7_BounceNeverPressed ==
    (nLows = 1 /\ lowFor < BUTTON_DEBOUNCE) => ~shortFired

\* C7 witness: is_pressed saw the pin low, slept, and returned False
\* because the pulse (the only one so far) had ended within the debounce time
C7_Witness ==
    /\ nLows = 1 /\ pin = 1 /\ lowFor > 0 /\ lowFor < BUTTON_DEBOUNCE
    /\ ret = <<"is_pressed", FALSE>>
    /\ now > 0 /\ last_state[TheButton] = 1

\* C31: is_pressed reports a press only on release: it never returns True
\* while the pin is still low (so a press held beyond the long-press
\* threshold, which is_pressed can only see while it is low or after the
\* threshold, yields no Pressed).  The formula states the first half, on
\* which the second rests: at the return of a call that gave True the pin
\* is high.
C31_PressedOnlyOnRelease ==
    [][(ret' = <<"is_pressed", TRUE>> /\ last_state' # last_state)
        => pin' = 1]_vars

(***************************************************************************)
(* Polling several buttons in turn, as "if a.is_pressed(): ... elif        *)
(* b.is_pressed(): ..." and any(btn.is_pressed() for ...) do: the buttons  *)
(* of order are polled until one fires.  f gives the level each button's   *)
(* first read sees, g the level after the debounce sleep.                  *)
(***************************************************************************)
\* the two levels one poll of a button can read: the second read happens
\* only after a first read of 0
Reads == {<<1, 1>>, <<0, 0>>, <<0, 1>>}
Levels == [Buttons -> Reads]
First(r) == [b \in Buttons |-> r[b][1]]
Second(r) == [b \in Buttons |-> r[b][2]]
MenuOrder == <<"up", "down", "select", "back">>

RECURSIVE FirstFired(_, _, _, _, _)
\* index in order of the first button, from i on, whose is_pressed is True
FirstFired(order, i, ls, f, g) ==
    IF i > Len(order) THEN 0
    ELSE IF is_pressed(ls[order[i]], f[order[i]], g[order[i]]) THEN i
    ELSE FirstFired(order, i + 1, ls, f, g)

Fired(order, ls, f, g) ==
    LET k == FirstFired(order, 1, ls, f, g)
    IN  IF k = 0 THEN "none" ELSE order[k]

\* last_state of every button after the polls
Polled(order, ls, f, g) ==
    LET k == FirstFired(order, 1, ls, f, g)
        n == IF k = 0 THEN Len(order) ELSE k
    IN  [b \in Buttons |->
            IF \E i \in 1..n : order[i] = b
            THEN next_last_state(ls[b], f[b], g[b])
            ELSE ls[b]]


(***************************************************************************)
(* Menu.show: the cursor moves of one pass of its loop.                    *)
(***************************************************************************)
menu_up_no_wrap(sel, n) == IF sel = 0 THEN 0 ELSE sel - 1
menu_up(sel, n) == (sel - 1) % n
menu_down(sel, n) == (sel + 1) % n

menu_cursor(fired, sel, n) ==
    CASE fired = "up" -> menu_up(sel, n)
      [] fired = "down" -> menu_down(sel, n)
      [] OTHER -> sel

Index(i) == [kind |-> "index", value |-> i]
Cancel == [kind |-> "cancel", value |-> -1]
\* what self.action_map[i]() returned
ResultOf(i) == [kind |-> "result", value |-> i]
Invoked == <<"action_map", TRUE>>

\* the value show() returns on this pass (Showing: it loops on), for the
\* button that fired, the cursor and the keys of the action map
menu_return_ignores_map(fired, sel, mapped) ==
    CASE fired = "select" -> Index(sel)
      [] fired = "back" -> Cancel
      [] OTHER -> Showing
menu_return(fired, sel, mapped) ==
    CASE fired = "select" -> IF sel \in mapped THEN ResultOf(sel) ELSE Index(sel)
      [] fired = "back" -> Cancel
      [] OTHER -> Showing

(***************************************************************************)
(* SpecMenu: one Menu object with n options and any action_map, shown      *)
(* again by its caller after every return (the cursor is kept).            *)
(***************************************************************************)
MaxOptions == 4

InitMenu ==
    /\ options \in 1..MaxOptions
    /\ action_map \in SUBSET (0..(options - 1))
    /\ selected = 0 /\ prev_selected = 0 /\ edges = {} /\ choice = Showing
    /\ last_state = [b \in Buttons |-> 1]
    /\ AppParked /\ MatchParked /\ ButtonParked
    /\ users = <<>> /\ now = 0 /\ ret = NoCall

menuFrame == <<appOnly, matchOnly, buttonOnly, users, now, options, action_map>>

\* one pass of the while loop of Menu.show
MenuTick ==
    /\ choice = Showing
    /\ \E r \in Levels :
        LET fired == Fired(MenuOrder, last_state, First(r), Second(r)) IN
        /\ last_state' = Polled(MenuOrder, last_state, First(r), Second(r))
        /\ edges' = IF fired = "none" THEN {} ELSE {fired}
        /\ prev_selected' = selected
        /\ selected' = menu_cursor(fired, selected, options)
        /\ choice' = menu_return(fired, selected, action_map)
        /\ ret' = IF fired = "select" /\ selected \in action_map
                  THEN Invoked ELSE NoCall
    /\ UNCHANGED menuFrame

\* the caller calls show() on the same Menu object again
ShowAgain ==
    /\ choice # Showing
    /\ choice' = Showing
    /\ edges' = {}
    /\ prev_selected' = selected
    /\ ret' = NoCall
    /\ UNCHANGED <<selected, last_state, menuFrame>>

NextMenu == MenuTick \/ ShowAgain

SpecMenu == InitMenu /\ [][NextMenu]_vars

\* C8: an up edge moves the cursor from 0 to n-1, a down edge moves it from
\* n-1 to 0, and the cursor is always one of 0..n-1.
C8_MenuWraps ==
    /\ selected \in 0..(options - 1)
    /\ (edges = {"up"} /\ prev_selected = 0) => selected = options - 1
    /\ (edges = {"down"} /\ prev_selected = options - 1) => selected = 0

\* C8 witness: an up edge has just wrapped the cursor of a menu of three or
\* more options from 0 to the last option
C8_Witness ==
    /\ options >= 3 /\ edges = {"up"} /\ prev_selected = 0
    /\ selected = options - 1

\* C22: the similarity of two vectors of equal length is 0 when either is
\* all-zero, and similarity(a, b) = similarity(b, a).
AllZero(v) == \A i \in 1..Len(v) : v[i] = RZero
C22_ZeroAndSymmetric ==
    best_match # "pending" =>
        \A i \in 1..Len(users) :
            LET a == probe
                b == users[i].features
            IN  Len(a) = Len(b) =>
                  /\ (AllZero(a) \/ AllZero(b)) =>
                        (cosine_similarity(a, b) = RZero
                         /\ cosine_similarity(b, a) = RZero)
                  /\ cosine_similarity(a, b) = cosine_similarity(b, a)

\* C22 witness: an all-zero probe was matched against a non-zero record of
\* the same length under a negative threshold, and the record was returned
\* (its similarity 0 is above the threshold)
C22_Witness ==
    /\ probe = Vec(<<0, 0>>) /\ threshold < 0
    /\ Len(users) = 1 /\ users[1].features = Vec(<<3, 4>>)
    /\ best_match = users[1].id

\* C21: in Menu.show a back edge returns -1 and invokes no mapped action; a
\* select edge returns the result of the action mapped to the cursor index
\* when one is mapped, and the cursor index itself otherwise.
C21_MenuReturn ==
    /\ edges = {"back"} => (choice = Cancel /\ ret = NoCall)
    /\ edges = {"select"} =>
          IF prev_selected \in action_map
          THEN choice = ResultOf(prev_selected) /\ ret = Invoked
          ELSE choice = Index(prev_selected) /\ ret = NoCall

\* C21 witness: select on a mapped index other than 0 of a menu that also
\* has unmapped indices returned the result of that action
C21_Witness ==
    /\ edges = {"select"} /\ prev_selected > 0
    /\ prev_selected \in action_map /\ 0 \notin action_map
    /\ choice = ResultOf(prev_selected) /\ ret = Invoked

(***************************************************************************)
(* UserManager: the backing file, save_db, add_user.                       *)
(* A file is [ok, data]: ok is FALSE for a missing, truncated or           *)
(* unparsable file.  save_db either writes the store, fails at open()      *)
(* (file untouched) or fails in json.dump after open(..., "w") truncated   *)
(* the file.                                                               *)
(***************************************************************************)
NoFile == [ok |-> FALSE, data |-> <<>>]
SaveOutcomes == {"saved", "open_failed", "write_failed"}

(***************************************************************************)
(* json.dump / json.load of the store.  The text is kept as its tree of    *)
(* JSON values: an object of (key, object) members in dict order, strings, *)
(* and numbers.  An int is written as its decimal digits and read back     *)
(* from them.  A float is written as the build prints floats: the shortest *)
(* decimal that reads back as the same float (CPython, and MicroPython     *)
(* from 1.26), or seven significant digits (MicroPython with               *)
(* single-precision floats, the build of the boards that have the sensor   *)
(* and pyb modules this program imports); its numeral is kept by the       *)
(* number the decimal denotes.                                             *)
(***************************************************************************)
FloatReprs == {"shortest", "seven_digits"}
SignificantDigits == 7

\* the decimal exponent e of x # 0: 10^(e-1) <= |x| < 10^e
DecimalExponent(x) ==
    CHOOSE e \in 0..2 :
        /\ (IF e = 0 THEN Abs(x[1]) * 10 >= x[2]
                     ELSE Abs(x[1]) >= 10 ^ (e - 1) * x[2])
        /\ Abs(x[1]) < 10 ^ e * x[2]

\* x rounded to the given number of significant digits; a decimal that has
\* no more digits than that is its own rounding
RoundedTo(x, digits) ==
    IF x[1] = 0 THEN x
    ELSE LET scale == 10 ^ (digits - DecimalExponent(x))
             q == (2 * Abs(x[1]) * scale + x[2]) \div (2 * x[2])
         IN  IF scale % x[2] = 0 THEN x
             ELSE Rat((IF x[1] < 0 THEN -1 ELSE 1) * q, scale)

JString(text) == [type |-> "string", text |-> text]
JInt(n) == [type |-> "number", text |-> ToString(n)]
JFloat(x) ==
    [type |-> "number",
     value |-> IF float_repr = "shortest" THEN x
               ELSE RoundedTo(x, SignificantDigits)]

\* Config.REGISTRATION_SAMPLES, the largest count the program writes
REGISTRATION_SAMPLES == 5

\* the int a numeral stands for
parse_int(tok) == CHOOSE n \in 0..REGISTRATION_SAMPLES : ToString(n) = tok.text

dump_record(rec) ==
    [name |-> JString(rec.name),
     features |-> [i \in 1..Len(rec.features) |-> JFloat(rec.features[i])],
     registered_at |-> JString(rec.registered_at),
     samples_count |-> JInt(rec.samples_count)]

\* json.dump(self.users, f): the keys are the ids, which are str already
json_dump(store) ==
    [i \in 1..Len(store) |-> [key |-> store[i].id, value |-> dump_record(store[i])]]

\* json.load(f)
json_load(text) ==
    [i \in 1..Len(text) |->
        UserRecord(text[i].key,
                   text[i].value.name.text,
                   [k \in 1..Len(text[i].value.features) |->
                        text[i].value.features[k].value],
                   text[i].value.registered_at.text,
                   parse_int(text[i].value.samples_count))]

\* UserManager._load_db (and a version without the try/except)
load_db_unguarded(f) == json_load(f.data)
load_db(f) == IF f.ok THEN json_load(f.data) ELSE <<>>

\* UserManager.save_db: the file afterwards, and the value returned
\* (and a save_db that reports its outcome without touching the file)
file_after_no_save(f, store, outcome) == f
file_after_save(f, store, outcome) ==
    CASE outcome = "saved" -> [ok |-> TRUE, data |-> json_dump(store)]
      [] outcome = "open_failed" -> f
      [] outcome = "write_failed" -> NoFile
save_db(outcome) == outcome = "saved"

\* self.users[user_id] = record: a new key is appended, an existing key
\* keeps its place
StorePut(store, id, rec) ==
    IF id \in Ids(store)
    THEN [i \in 1..Len(store) |-> IF store[i].id = id THEN rec ELSE store[i]]
    ELSE Append(store, rec)

\* UserManager.get_user
get_user(store, id) ==
    IF id \in Ids(store)
    THEN LET i == CHOOSE i \in 1..Len(store) : store[i].id = id IN store[i]
    ELSE None

\* UserManager.add_user: self.users after the insertion; t is
\* time.ticks_ms(), and time.localtime() is read at the same instant
add_user(store, nm, features, t) ==
    StorePut(store, ToString(t),
             UserRecord(ToString(t), nm, features, ToString(t), 1))

(***************************************************************************)
(* Registration: the pieces of _registration_mode and                      *)
(* _recollect_user_features.                                               *)
(***************************************************************************)
MIN_FACE_SIZE == 80
LIVENESS_TIMEOUT == 5000
SIMILARITY_THRESHOLD == 5

\* max(faces, key=lambda f: f[2] * f[3]): max goes through the list and
\* replaces the face it holds only by one whose key is greater (and a
\* version that replaces it by one whose key is not smaller)
RECURSIVE MaxFrom(_, _, _)
MaxFrom(faces, i, best) ==
    IF i > Len(faces) THEN best
    ELSE IF faces[i].w * faces[i].h > best.w * best.h
    THEN MaxFrom(faces, i + 1, faces[i])
    ELSE MaxFrom(faces, i + 1, best)
RECURSIVE MaxFromLast(_, _, _)
MaxFromLast(faces, i, best) ==
    IF i > Len(faces) THEN best
    ELSE IF faces[i].w * faces[i].h >= best.w * best.h
    THEN MaxFromLast(faces, i + 1, faces[i])
    ELSE MaxFromLast(faces, i + 1, best)
MaxFace_last(faces) == MaxFromLast(faces, 2, faces[1])
MaxFace(faces) == MaxFrom(faces, 2, faces[1])

\* "face[2] < MIN_FACE_SIZE or face[3] < MIN_FACE_SIZE" (and the test
\* written with "and")
too_small_both(face) == face.w < MIN_FACE_SIZE /\ face.h < MIN_FACE_SIZE
too_small(face) == face.w < MIN_FACE_SIZE \/ face.h < MIN_FACE_SIZE

\* "if features:" (and a version that appends whatever was returned)
accepts_anything(features) == TRUE
accepts(features) == features # NoFeatures

\* "if self.buttons["back"].is_pressed() and samples: break" (and a break
\* on any back edge)
finish_early_any(backFired, smp) == backFired
finish_early(backFired, smp) == backFired /\ smp # <<>>

\* "while len(samples) < Config.REGISTRATION_SAMPLES" is left
collection_full(smp) == Len(smp) >= REGISTRATION_SAMPLES

\* the mean raises IndexError when a sample is shorter than samples[0]
MeanRaises(smp) == \E k \in 1..Len(smp) : Len(smp[k]) < Len(smp[1])

\* [sum(f[i] for f in samples) / len(samples) for i in range(len(samples[0]))]
\* (and a version dividing by the target count)
mean_over_target(smp) ==
    [i \in 1..Len(smp[1]) |->
        RDiv(RSum([k \in 1..Len(smp) |-> smp[k][i]], Len(smp)),
             RInt(REGISTRATION_SAMPLES))]
mean_features(smp) ==
    [i \in 1..Len(smp[1]) |->
        RDiv(RSum([k \in 1..Len(smp) |-> smp[k][i]], Len(smp)),
             RInt(Len(smp)))]

(***************************************************************************)
(* Spec: FaceRecognitionApp.  The clock advances by StepMs where the       *)
(* program sleeps before it next reads the clock: at the message that      *)
(* opens or closes a handler changing the store or the settings, and at    *)
(* the end of a pass of the liveness loop.  A registration is started      *)
(* only while the clock leaves room for it to run to its timeout, and the  *)
(* other handlers that advance the clock only while EditSteps steps        *)
(* remain.                                                                 *)
(***************************************************************************)
StepMs == 2500
MaxSteps == 3
EditSteps == 3
MaxFaces == 2

MaxNow == MaxSteps * StepMs
ClockFits == now + StepMs <= MaxNow
SessionFits == now + StepMs + liveness_timeout <= MaxNow
EditFits == now + EditSteps * StepMs <= MaxNow

Names == {"Z", "QS"}
\* what extract_features may return; the last one is shorter than the others
Descriptors == {Vec(<<2, 0>>), Vec(<<0, 1>>), Vec(<<1>>)}
Rects == {[w |-> 60, h |-> 100], [w |-> 100, h |-> 100]}
FaceLists == UNION {[1..n -> Rects] : n \in 0..MaxFaces}

\* the stores an earlier run may have left in the file
InitialFiles ==
    {NoFile,
     [ok |-> TRUE, data |->
        json_dump(<<UserRecord("1", "Z", Vec(<<2, 0>>), "1", 1)>>)],
     [ok |-> TRUE, data |->
        json_dump(<<UserRecord(ToString(2 * StepMs), "QS", Vec(<<0, 1>>), "1", 1)>>)]}

MainOptions == 6

Init ==
    /\ pc = "main_menu"
    /\ float_repr = "seven_digits"     \* the board's build
    /\ InputParked /\ DraftParked
    /\ file \in InitialFiles
    /\ users = load_db(file)
    /\ selected = 0 /\ options = MainOptions
    /\ now = 0
    /\ last_state = [b \in Buttons |-> 1]
    /\ name = "" /\ samples = <<>> /\ msg = "ready"
    /\ start_time = 0 /\ eyes_detected = FALSE
    /\ liveness_timeout = LIVENESS_TIMEOUT
    /\ threshold = SIMILARITY_THRESHOLD
    /\ cursor = 0 /\ user_id = None /\ current_threshold = 0
    /\ edges = {} /\ prev_selected = 0 /\ choice = Showing /\ action_map = {}
    /\ frame = <<>> /\ chosen = NoFace /\ blink_seen = "none"
    /\ probe = NoFeatures /\ best_match = None /\ label = ""
    /\ ButtonParked /\ ret = NoCall

session == <<name, samples, start_time, eyes_detected>>
db      == <<users, file>>
config  == <<threshold, liveness_timeout>>
drawn   == <<probe, best_match, label>>
submenu == <<cursor, user_id, current_threshold>>
frozen  == <<buttonOnly, ret, options, prev_selected, choice, action_map,
             float_repr, current_text, page, user_db, frame, chosen,
                blink_seen>>

\* the buttons are worked with one finger: at most one pin is low in a pass
AppLevels == {r \in Levels : Cardinality({b \in Buttons : r[b] # <<1, 1>>}) <= 1}

\* self.buttons.values(), for "any(btn.is_pressed() for btn in ...)"
DictOrder == <<"up", "down", "select", "back">>

Screen(p, m) == pc' = p /\ msg' = m
\* the locals of a handler are gone when it returns
NoLocals == cursor' = 0 /\ user_id' = None /\ UNCHANGED current_threshold
SessionOver ==
    name' = "" /\ samples' = <<>> /\ start_time' = 0 /\ eyes_detected' = FALSE

(***************************************************************************)
(* run(): one pass of main_menu.show, and the handler a selection starts.  *)
(***************************************************************************)
\* run: where control goes when main_menu.show returned result; the loop is
\* "while True" and does not look at it (and a loop that ends on -1)
run_next_until_exit(result) == IF result = -1 THEN "off" ELSE "main_menu"
run_next(result) == "main_menu"

main_action(k) ==
    \/ /\ k = 0                                    \* _recognition_mode
       /\ Screen("recognition", "recognition_started")
       /\ UNCHANGED <<now, session, db, config, drawn, submenu>>
    \/ /\ k = 1                                    \* _registration_mode
       /\ SessionFits
       /\ now' = now + StepMs
       /\ Screen("name_input", "enter_registration")
       /\ UNCHANGED <<session, db, config, drawn, submenu>>
    \/ /\ k = 2                                    \* _manage_users
       /\ Screen("manage_users", "menu")
       /\ UNCHANGED <<now, session, db, config, drawn, submenu>>
    \/ /\ k = 3                                    \* _system_settings
       /\ Screen("settings", "menu")
       /\ UNCHANGED <<now, session, db, config, drawn, submenu>>
    \/ /\ k = 4                                    \* _show_about
       /\ Screen("about", "about")
       /\ UNCHANGED <<now, session, db, config, drawn, submenu>>
    \/ /\ k = 5                                    \* _exit_system
       /\ Screen(run_next(-1), "closed")
       /\ UNCHANGED <<now, session, db, config, drawn, submenu>>

MainMenuTick ==
    /\ pc = "main_menu"
    /\ \E r \in AppLevels :
          LET fired == Fired(MenuOrder, last_state, First(r), Second(r)) IN
          /\ last_state' = Polled(MenuOrder, last_state, First(r), Second(r))
          /\ edges' = {fired} \ {"none"}
          /\ selected' = menu_cursor(fired, selected, MainOptions)
          /\ IF fired = "select"
             THEN main_action(selected)
             ELSE /\ Screen(IF fired = "back" THEN run_next(-1) ELSE "main_menu",
                            "menu")
                  /\ UNCHANGED <<now, session, db, config, drawn, submenu>>
    /\ UNCHANGED frozen

(***************************************************************************)
(* _show_about: wait for any button.                                       *)
(***************************************************************************)
AboutTick ==
    /\ pc = "about"
    /\ \E r \in AppLevels :
          LET fired == Fired(DictOrder, last_state, First(r), Second(r)) IN
          /\ last_state' = Polled(DictOrder, last_state, First(r), Second(r))
          /\ edges' = {fired} \ {"none"}
          /\ IF fired = "none"
             THEN UNCHANGED <<pc, msg>>
             ELSE Screen("main_menu", "menu")
    /\ UNCHANGED <<selected, now, session, db, config, drawn, submenu, frozen>>

(***************************************************************************)
(* _recognition_mode: one frame.  probe and best_match show the last face  *)
(* of the frame and the id found for it.                                   *)
(***************************************************************************)
\* the text drawn on a face: the first record's name whatever id was found
face_label_first(store, id) ==
    IF store # <<>> THEN store[1].name ELSE "unknown"
\* the text drawn on a face for the id find_user_by_features returned
face_label(store, id) ==
    IF id # None /\ id # "" THEN get_user(store, id).name ELSE "unknown"

FrameFeatures ==
    UNION {[1..n -> Descriptors \cup {NoFeatures}] : n \in 0..MaxFaces}

RecognitionTick ==
    /\ pc = "recognition"
    /\ \E seen \in FrameFeatures, r \in Reads :
          LET fired == is_pressed(last_state["back"], r[1], r[2])
              last == IF seen = <<>> THEN NoFeatures ELSE seen[Len(seen)]
          IN
          /\ last_state' = [last_state EXCEPT
                              !["back"] = next_last_state(@, r[1], r[2])]
          /\ edges' = IF fired THEN {"back"} ELSE {}
          /\ IF fired
             THEN /\ Screen("main_menu", "menu")
                  /\ probe' = NoFeatures /\ best_match' = None
                  /\ label' = ""
             ELSE /\ UNCHANGED <<pc, msg>>
                  /\ probe' = last
                  /\ best_match' =
                        find_user_by_features(users, last, SIMILARITY_THRESHOLD)
                  /\ label' = IF seen = <<>> THEN ""
                               ELSE face_label(users, best_match')
    /\ UNCHANGED <<selected, now, session, db, config, submenu, frozen>>

(***************************************************************************)
(* ChineseInput.input, by what it returns and how it leaves the buttons:   *)
(* "" after an is_pressed edge of back on an empty text, or the text       *)
(* after is_long_pressed of up and of down both returned True (which sets  *)
(* their last_state to 1).  The other buttons were polled while released.  *)
(***************************************************************************)
InputResults ==
    {[text |-> "", last_state |-> [b \in Buttons |-> IF b = "back" THEN 0 ELSE 1]]}
    \cup
    {[text |-> nm, last_state |-> [b \in Buttons |-> 1]] : nm \in Names}

NameInput ==
    /\ pc = "name_input"
    /\ \E res \in InputResults :
          /\ last_state' = res.last_state
          /\ edges' = IF res.text = "" THEN {"back"} ELSE {}
          /\ IF res.text = ""
             THEN Screen("main_menu", "registration_cancelled") /\ SessionOver
             ELSE /\ Screen("collect", "aim_face")
                  /\ name' = res.text
                  /\ samples' = <<>>
                  /\ UNCHANGED <<start_time, eyes_detected>>
    /\ UNCHANGED <<selected, now, db, config, drawn, submenu, frozen>>

(***************************************************************************)
(* One pass of the sample loop of _registration_mode (the same loop is in  *)
(* _recollect_user_features).  "continue" after a face that is too small   *)
(* skips the poll of back.                                                 *)
(***************************************************************************)
collect_pass(smp, ls, shown, faces, upRead, features, backRead) ==
    LET hasFace == faces # <<>>
        face == MaxFace(faces)
        upFired == hasFace /\ is_pressed(ls["up"], upRead[1], upRead[2])
        ls1 == IF hasFace
               THEN [ls EXCEPT !["up"] = next_last_state(@, upRead[1], upRead[2])]
               ELSE ls
        skipped == upFired /\ too_small(face)
        taken == upFired /\ ~skipped /\ accepts(features)
        smp1 == IF taken THEN Append(smp, features) ELSE smp
        backFired == ~skipped /\ is_pressed(ls1["back"], backRead[1], backRead[2])
        ls2 == IF skipped
               THEN ls1
               ELSE [ls1 EXCEPT !["back"] = next_last_state(@, backRead[1], backRead[2])]
    IN  [samples |-> smp1,
         last_state |-> ls2,
         edges |-> {b \in {"up", "back"} :
                      (b = "up" /\ upFired) \/ (b = "back" /\ backFired)},
         msg |-> IF skipped THEN "too_far"
                 ELSE IF taken THEN "sample_taken"
                 ELSE IF upFired THEN "no_features"
                 ELSE shown,
         done |-> ~skipped /\ (finish_early(backFired, smp1) \/ collection_full(smp1))]

\* the camera and the two buttons of a pass
CollectInputs ==
    {in \in [faces : FaceLists, up : Reads, back : Reads,
             features : Descriptors \cup {NoFeatures}] :
        in.up = <<1, 1>> \/ in.back = <<1, 1>>}

CollectTick ==
    /\ pc = "collect"
    /\ \E in \in CollectInputs :
          LET p == collect_pass(samples, last_state, msg,
                                in.faces, in.up, in.features, in.back)
          IN
          /\ last_state' = p.last_state
          /\ edges' = p.edges
          /\ samples' = p.samples
          /\ IF ~p.done
             THEN /\ Screen("collect", p.msg)
                  /\ UNCHANGED <<name, start_time, eyes_detected>>
             ELSE IF p.samples = <<>>
             THEN Screen("main_menu", "no_samples") /\ SessionOver
             ELSE /\ Screen("liveness", "blink")          \* _liveness_detection
                  /\ start_time' = now
                  /\ eyes_detected' = FALSE
                  /\ UNCHANGED name
    /\ UNCHANGED <<selected, now, db, config, drawn, submenu, frozen>>

(***************************************************************************)
(* One pass of the loop of _liveness_detection; when the loop is left,     *)
(* the rest of _registration_mode: the mean, add_user, the message.        *)
(***************************************************************************)
\* "time.ticks_diff(time.ticks_ms(), start_time) < Config.LIVENESS_TIMEOUT"
\* (and the comparison written "<=")
liveness_open_inclusive(t, start, timeout) == t - start <= timeout
liveness_open(t, start, timeout) == t - start < timeout

RegisterUser ==
    IF MeanRaises(samples)
    THEN Screen("crashed", "IndexError") /\ UNCHANGED <<db, session>>
    ELSE \E outcome \in SaveOutcomes :
            /\ users' = add_user(users, name, mean_features(samples), now)
            /\ file' = file_after_save(file, users', outcome)
            /\ Screen("main_menu",
                      IF save_db(outcome) THEN "registered" ELSE "register_failed")
            /\ SessionOver

LivenessFailed ==
    Screen("main_menu", "liveness_failed") /\ SessionOver /\ UNCHANGED db

\* "return eyes_detected and eyes_closed" (and a version that forgets the
\* closing of the eyes)
liveness_result_open_eyes(detected, closed) == detected
liveness_result(detected, closed) == detected /\ closed

\* "if not self._liveness_detection(): ... return", else the registration
AfterLiveness(passed) == IF passed THEN RegisterUser ELSE LivenessFailed

\* time.sleep_ms(100) at the end of a pass
LivenessSleep == 100

\* "if eyes and not eyes_detected" inside "if faces"
eyes_opened(hasFace, eyes, detected) == hasFace /\ eyes /\ ~detected
\* "elif eyes_detected and not eyes" inside "if faces" (and the test made
\* outside "if faces")
eyes_closed_no_face(hasFace, eyes, detected) == detected /\ ~eyes
eyes_closed(hasFace, eyes, detected) == hasFace /\ detected /\ ~eyes

\* the observer of the snapshots of a liveness check
BlinkAfter(seen, hasFace, eyes) ==
    CASE seen = "none" /\ hasFace /\ eyes -> "eyes"
      [] seen = "eyes" /\ hasFace /\ ~eyes -> "blinked"
      [] OTHER -> seen

\* one pass of the loop of _liveness_detection with a sleep of tick ms,
\* taken when the clock of the model has room for it; observed says
\* whether the snapshots are recorded in blink_seen
LivenessStep(tick, fits, observed) ==
    /\ pc = "liveness"
    /\ IF ~liveness_open(now, start_time, liveness_timeout)
       THEN /\ AfterLiveness(liveness_result(eyes_detected, FALSE))
            /\ UNCHANGED <<now, last_state, blink_seen>> /\ edges' = {}
       ELSE \E hasFace \in BOOLEAN, eyes \in BOOLEAN, r \in Reads :
               LET opened == eyes_opened(hasFace, eyes, eyes_detected)
                   blinked == ~opened /\ eyes_closed(hasFace, eyes, eyes_detected)
                   fired == is_pressed(last_state["back"], r[1], r[2])
               IN
               /\ blink_seen' = IF observed
                                THEN BlinkAfter(blink_seen, hasFace, eyes)
                                ELSE blink_seen
               /\ IF blinked
                  THEN /\ AfterLiveness(liveness_result(eyes_detected, TRUE))
                       /\ UNCHANGED <<now, last_state>> /\ edges' = {}
                  ELSE /\ last_state' = [last_state EXCEPT
                                           !["back"] = next_last_state(@, r[1], r[2])]
                       /\ edges' = IF fired THEN {"back"} ELSE {}
                       /\ IF fired
                          THEN /\ AfterLiveness(
                                    liveness_result(eyes_detected \/ opened, FALSE))
                               /\ UNCHANGED now
                          ELSE /\ fits
                               /\ now' = now + tick
                               /\ eyes_detected' = (eyes_detected \/ opened)
                               /\ UNCHANGED <<pc, msg, name, samples, start_time, db>>
    /\ UNCHANGED <<selected, config, drawn, submenu, buttonOnly, ret, options,
                   prev_selected, choice, action_map, float_repr, current_text,
                   page, user_db, frame, chosen>>

LivenessTick == LivenessStep(StepMs, ClockFits, FALSE)

(***************************************************************************)
(* _manage_users: the head of its loop, then one pass of the list menu     *)
(* (one option per user and a last option "back", no action_map).          *)
(***************************************************************************)
\* user = self.user_manager.get_user(user_id); "if not user" is the negation:
\* dict.get gives None for an absent id and a non-empty record otherwise
found_always(store, id) == TRUE
found(store, id) == id \in Ids(store)

ManageUsersTop ==
    /\ pc = "manage_users"
    /\ IF users = <<>>
       THEN Screen("main_menu", "no_users")
       ELSE Screen("user_list", "menu")
    /\ edges' = {}
    /\ UNCHANGED <<selected, last_state, now, session, db, config, drawn,
                   submenu, frozen>>

UserListTick ==
    /\ pc = "user_list"
    /\ \E r \in AppLevels :
          LET fired == Fired(MenuOrder, last_state, First(r), Second(r))
              n == Len(users) + 1
          IN
          /\ last_state' = Polled(MenuOrder, last_state, First(r), Second(r))
          /\ edges' = {fired} \ {"none"}
          /\ IF fired = "back" \/ (fired = "select" /\ cursor = n - 1)
             THEN Screen("main_menu", "menu") /\ NoLocals
             ELSE IF fired = "select"
             THEN /\ IF found(users, users[cursor + 1].id) \* _manage_user_details
                     THEN /\ Screen("user_details", "menu")
                          /\ user_id' = users[cursor + 1].id
                     ELSE /\ Screen("user_list", "user_not_exist")
                          /\ user_id' = None
                  /\ cursor' = 0
                  /\ UNCHANGED current_threshold
             ELSE /\ Screen("user_list", "menu")
                  /\ cursor' = menu_cursor(fired, cursor, n)
                  /\ UNCHANGED <<user_id, current_threshold>>
    /\ UNCHANGED <<selected, now, session, db, config, drawn, frozen>>

(***************************************************************************)
(* _manage_user_details: one pass of the menu of a user; a selection runs  *)
(* its handler, after which the menu returns to the loop of _manage_users. *)
(***************************************************************************)
DetailOptions == 5

\* Display.show_message("用户不存在"); return
UserNotExist ==
    /\ Screen("manage_users", "user_not_exist")
    /\ cursor' = 0 /\ user_id' = None
    /\ UNCHANGED now

detail_action(k) ==
    \/ /\ k = 0                                    \* _view_user_details
       /\ Screen("view_user", "user_details")
       /\ cursor' = 0
       /\ UNCHANGED <<now, user_id>>
    \/ /\ k = 1                                    \* _rename_user
       /\ Screen("rename_input", "menu")
       /\ cursor' = 0
       /\ UNCHANGED <<now, user_id>>
    \/ /\ k = 2                                    \* _recollect_user_features
       /\ EditFits
       /\ now' = now + StepMs
       /\ Screen("recollect", "recollect")
       /\ cursor' = 0
       /\ UNCHANGED user_id
    \/ /\ k = 3                                    \* _delete_user
       /\ Screen("confirm_delete", "menu")
       /\ cursor' = 0
       /\ UNCHANGED <<now, user_id>>
    \/ /\ k = 4                                    \* lambda: -1
       /\ Screen("manage_users", "menu")
       /\ cursor' = 0 /\ user_id' = None
       /\ UNCHANGED now

UserDetailsTick ==
    /\ pc = "user_details"
    /\ \E r \in AppLevels :
          LET fired == Fired(MenuOrder, last_state, First(r), Second(r)) IN
          /\ last_state' = Polled(MenuOrder, last_state, First(r), Second(r))
          /\ edges' = {fired} \ {"none"}
          /\ CASE fired = "select" ->
                    IF cursor \in 0..3 /\ ~found(users, user_id)
                    THEN UserNotExist
                    ELSE detail_action(cursor)
               [] fired = "back" ->
                    /\ Screen("manage_users", "menu")
                    /\ cursor' = 0 /\ user_id' = None
                    /\ UNCHANGED now
               [] OTHER ->
                    /\ Screen("user_details", "menu")
                    /\ cursor' = menu_cursor(fired, cursor, DetailOptions)
                    /\ UNCHANGED <<now, user_id>>
    /\ UNCHANGED <<selected, session, db, config, drawn, current_threshold,
                   frozen>>

\* _view_user_details: wait for any button
ViewUserTick ==
    /\ pc = "view_user"
    /\ \E r \in AppLevels :
          LET fired == Fired(DictOrder, last_state, First(r), Second(r)) IN
          /\ last_state' = Polled(DictOrder, last_state, First(r), Second(r))
          /\ edges' = {fired} \ {"none"}
          /\ IF fired = "none"
             THEN UNCHANGED <<pc, msg, user_id>>
             ELSE Screen("manage_users", "menu") /\ user_id' = None
    /\ UNCHANGED <<selected, now, session, db, config, drawn, cursor,
                   current_threshold, frozen>>

(***************************************************************************)
(* The handlers that edit the record of user_id.  The record they hold is  *)
(* the object in self.users, so an assignment to it changes the store.     *)
(***************************************************************************)
\* "if new_name and new_name != user['name']" (and the test of new_name
\* alone)
rename_wanted_nonempty(new_name, current) == new_name # ""
rename_wanted(new_name, current) == new_name # "" /\ new_name # current

\* user['name'] = new_name
with_name(store, id, nm) ==
    [i \in 1..Len(store) |->
        IF store[i].id = id THEN [store[i] EXCEPT !.name = nm] ELSE store[i]]

\* user['features'] = avg_features; user['samples_count'] = len(samples)
\* (and a version that averages the new descriptor with the old one)
with_features_blended(store, id, features, count) ==
    [i \in 1..Len(store) |->
        IF store[i].id = id /\ Len(store[i].features) = Len(features)
        THEN [store[i] EXCEPT
                !.features = [k \in 1..Len(features) |->
                                RDiv(RAdd(store[i].features[k], features[k]),
                                     RInt(2))],
                !.samples_count = count]
        ELSE store[i]]
with_features(store, id, features, count) ==
    [i \in 1..Len(store) |->
        IF store[i].id = id
        THEN [store[i] EXCEPT !.features = features, !.samples_count = count]
        ELSE store[i]]

\* del self.users[user_id]
without_user(store, id) ==
    SelectSeq(store, LAMBDA rec : rec.id # id)

RenameInput ==
    /\ pc = "rename_input"
    /\ \E res \in InputResults :
          /\ last_state' = res.last_state
          /\ edges' = IF res.text = "" THEN {"back"} ELSE {}
          /\ IF rename_wanted(res.text, get_user(users, user_id).name)
             THEN \E outcome \in SaveOutcomes :
                     /\ EditFits
                     /\ now' = now + StepMs
                     /\ users' = with_name(users, user_id, res.text)
                     /\ file' = file_after_save(file, users', outcome)
                     /\ Screen("manage_users",
                               IF save_db(outcome) THEN "renamed" ELSE "save_failed")
             ELSE Screen("manage_users", "menu") /\ UNCHANGED <<now, db>>
    /\ user_id' = None
    /\ UNCHANGED <<selected, session, config, drawn, cursor, current_threshold,
                   frozen>>

\* one pass of the sample loop of _recollect_user_features
RecollectTick ==
    /\ pc = "recollect"
    /\ \E in \in CollectInputs :
          LET p == collect_pass(samples, last_state, msg,
                                in.faces, in.up, in.features, in.back)
          IN
          /\ last_state' = p.last_state
          /\ edges' = p.edges
          /\ samples' = p.samples
          /\ Screen(IF p.done THEN "recollect_done" ELSE "recollect", p.msg)
    /\ UNCHANGED <<selected, now, name, start_time, eyes_detected, db, config,
                   drawn, submenu, frozen>>

\* _recollect_user_features after its loop: the mean, the record, save_db
RecollectCommit ==
    /\ pc = "recollect_done"
    /\ IF samples = <<>>
       THEN /\ Screen("manage_users", "no_samples")
            /\ user_id' = None
            /\ UNCHANGED <<db, samples>>
       ELSE IF MeanRaises(samples)
       THEN /\ Screen("crashed", "IndexError")
            /\ UNCHANGED <<db, samples, user_id>>
       ELSE \E outcome \in SaveOutcomes :
               /\ users' = with_features(users, user_id,
                                         mean_features(samples), Len(samples))
               /\ file' = file_after_save(file, users', outcome)
               /\ samples' = <<>> /\ user_id' = None
               /\ Screen("manage_users",
                         IF save_db(outcome) THEN "features_updated"
                                             ELSE "save_failed")
    /\ edges' = {}
    /\ UNCHANGED <<selected, last_state, now, name, start_time, eyes_detected,
                   config, drawn, cursor, current_threshold, frozen>>

\* a confirmation menu: "confirm", "cancel"
ConfirmOptions == 2
\* choice >= 0: either option of the confirmation menu selected
choice_is_any(fired, cur) == fired = "select"
\* choice == 0 for the value confirm_menu.show returned
choice_is_confirm(fired, cur) == fired = "select" /\ cur = 0

\* _delete_user: the confirmation, then UserManager.delete_user
ConfirmDeleteTick ==
    /\ pc = "confirm_delete"
    /\ \E r \in AppLevels :
          LET fired == Fired(MenuOrder, last_state, First(r), Second(r)) IN
          /\ last_state' = Polled(MenuOrder, last_state, First(r), Second(r))
          /\ edges' = {fired} \ {"none"}
          /\ IF choice_is_confirm(fired, cursor)
             THEN \E outcome \in SaveOutcomes :
                     /\ EditFits
                     /\ now' = now + StepMs
                     /\ users' = without_user(users, user_id)
                     /\ file' = file_after_save(file, users', outcome)
                     /\ Screen("manage_users",
                               IF save_db(outcome) THEN "deleted" ELSE "delete_failed")
                     /\ cursor' = 0 /\ user_id' = None
             ELSE IF fired \in {"select", "back"}
             THEN /\ Screen("manage_users", "menu")
                  /\ cursor' = 0 /\ user_id' = None
                  /\ UNCHANGED <<now, db>>
             ELSE /\ Screen("confirm_delete", "menu")
                  /\ cursor' = menu_cursor(fired, cursor, ConfirmOptions)
                  /\ UNCHANGED <<now, db, user_id>>
    /\ UNCHANGED <<selected, session, config, drawn, current_threshold, frozen>>

(***************************************************************************)
(* _system_settings and its handlers.                                      *)
(***************************************************************************)
SettingsOptions == 4
MinThreshold == 1
MaxThreshold == 10

\* _toggle_liveness_detection
toggled(timeout) == IF timeout > 0 THEN 0 ELSE 5000

settings_action(k) ==
    \/ /\ k = 0                                    \* _adjust_threshold
       /\ Screen("adjust_threshold", "adjust")
       /\ current_threshold' = threshold
       /\ cursor' = 0
       /\ UNCHANGED <<now, config>>
    \/ /\ k = 1                                    \* _toggle_liveness_detection
       /\ EditFits
       /\ now' = now + StepMs
       /\ liveness_timeout' = toggled(liveness_timeout)
       /\ Screen("main_menu",
                 IF liveness_timeout > 0 THEN "liveness_off" ELSE "liveness_on")
       /\ cursor' = 0
       /\ UNCHANGED <<threshold, current_threshold>>
    \/ /\ k = 2                                    \* _reset_database
       /\ Screen("confirm_reset", "menu")
       /\ cursor' = 0
       /\ UNCHANGED <<now, config, current_threshold>>
    \/ /\ k = 3                                    \* lambda: -1
       /\ Screen("main_menu", "menu")
       /\ cursor' = 0
       /\ UNCHANGED <<now, config, current_threshold>>

SettingsTick ==
    /\ pc = "settings"
    /\ \E r \in AppLevels :
          LET fired == Fired(MenuOrder, last_state, First(r), Second(r)) IN
          /\ last_state' = Polled(MenuOrder, last_state, First(r), Second(r))
          /\ edges' = {fired} \ {"none"}
          /\ CASE fired = "select" -> settings_action(cursor)
               [] fired = "back" ->
                    /\ Screen("main_menu", "menu")
                    /\ cursor' = 0
                    /\ UNCHANGED <<now, config, current_threshold>>
               [] OTHER ->
                    /\ Screen("settings", "menu")
                    /\ cursor' = menu_cursor(fired, cursor, SettingsOptions)
                    /\ UNCHANGED <<now, config, current_threshold>>
    /\ UNCHANGED <<selected, session, db, drawn, user_id, frozen>>

\* min(1.0, current_threshold + 0.1) and max(0.1, current_threshold - 0.1)
\* (threshold_up_late_clamp stops one step too late)
threshold_up_late_clamp(t) == IF t > MaxThreshold THEN t ELSE t + 1
threshold_up(t) == IF t + 1 > MaxThreshold THEN MaxThreshold ELSE t + 1
threshold_down(t) == IF t - 1 < MinThreshold THEN MinThreshold ELSE t - 1

AdjustThresholdTick ==
    /\ pc = "adjust_threshold"
    /\ \E r \in AppLevels :
          LET fired == Fired(MenuOrder, last_state, First(r), Second(r)) IN
          /\ last_state' = Polled(MenuOrder, last_state, First(r), Second(r))
          /\ edges' = {fired} \ {"none"}
          /\ CASE fired = "up" ->
                    /\ current_threshold' = threshold_up(current_threshold)
                    /\ UNCHANGED <<pc, msg, now, threshold>>
               [] fired = "down" ->
                    /\ current_threshold' = threshold_down(current_threshold)
                    /\ UNCHANGED <<pc, msg, now, threshold>>
               [] fired = "select" ->
                    /\ EditFits
                    /\ now' = now + StepMs
                    /\ threshold' = current_threshold
                    /\ Screen("main_menu", "threshold_set")
                    /\ current_threshold' = 0
               [] fired = "back" ->
                    /\ Screen("main_menu", "menu")
                    /\ current_threshold' = 0
                    /\ UNCHANGED <<now, threshold>>
               [] OTHER ->
                    UNCHANGED <<pc, msg, now, threshold, current_threshold>>
    /\ UNCHANGED <<selected, session, db, liveness_timeout, drawn, cursor,
                   user_id, frozen>>

\* _reset_database: the confirmation, then self.users = {} and save_db
ConfirmResetTick ==
    /\ pc = "confirm_reset"
    /\ \E r \in AppLevels :
          LET fired == Fired(MenuOrder, last_state, First(r), Second(r)) IN
          /\ last_state' = Polled(MenuOrder, last_state, First(r), Second(r))
          /\ edges' = {fired} \ {"none"}
          /\ IF choice_is_confirm(fired, cursor)
             THEN \E outcome \in SaveOutcomes :
                     /\ EditFits
                     /\ now' = now + StepMs
                     /\ users' = <<>>
                     /\ file' = file_after_save(file, users', outcome)
                     /\ Screen("main_menu",
                               IF save_db(outcome) THEN "reset" ELSE "reset_failed")
                     /\ cursor' = 0
             ELSE IF fired \in {"select", "back"}
             THEN /\ Screen("main_menu", "menu")
                  /\ cursor' = 0
                  /\ UNCHANGED <<now, db>>
             ELSE /\ Screen("confirm_reset", "menu")
                  /\ cursor' = menu_cursor(fired, cursor, ConfirmOptions)
                  /\ UNCHANGED <<now, db>>
    /\ UNCHANGED <<selected, session, config, drawn, user_id,
                   current_threshold, frozen>>

Next ==
    \/ MainMenuTick
    \/ AboutTick
    \/ RecognitionTick
    \/ NameInput
    \/ CollectTick
    \/ LivenessTick
    \/ ManageUsersTop
    \/ UserListTick
    \/ UserDetailsTick
    \/ ViewUserTick
    \/ RenameInput
    \/ RecollectTick
    \/ RecollectCommit
    \/ ConfirmDeleteTick
    \/ SettingsTick
    \/ AdjustThresholdTick
    \/ ConfirmResetTick

Spec == Init /\ [][Next]_vars

(***************************************************************************)
(* The store on its own: UserManager and the handlers of the user menu,    *)
(* called with any id (one of the store or not), the file damaged between  *)
(* calls, and the program started again on whatever the file holds.        *)
(***************************************************************************)
StoreTimes == 1..MaxStored
StoreIds == {ToString(t) : t \in StoreTimes}
StoreSamples ==
    {<<Vec(<<2, 0>>), Vec(<<0, 1>>), Vec(<<2, 0>>)>>}
Handlers ==
    {"_manage_user_details", "_view_user_details", "_rename_user",
     "_recollect_user_features", "_delete_user"}

InitStore ==
    /\ float_repr \in FloatReprs /\ InputParked /\ DraftParked
    /\ users = <<>> /\ file = NoFile /\ msg = "menu"
    /\ frame = <<>> /\ chosen = NoFace /\ blink_seen = "none"
    /\ user_id = None /\ ret = NoCall
    /\ pc = "off" /\ name = "" /\ samples = <<>> /\ start_time = 0
    /\ eyes_detected = FALSE /\ liveness_timeout = 0 /\ cursor = 0
    /\ current_threshold = 0
    /\ selected = 0 /\ now = 0 /\ options = 0
    /\ last_state = [b \in Buttons |-> 1]
    /\ MenuParked /\ MatchParked /\ ButtonParked

storeFrame ==
    <<pc, start_time, eyes_detected, liveness_timeout, cursor,
      current_threshold, selected, now, options, last_state, menuOnly,
      matchOnly, buttonOnly, float_repr, current_text, page, user_db, frame,
      chosen,
      blink_seen>>

\* UserManager.__init__ of a new run, after which start-up goes on to the menu
Restart ==
    /\ users' = load_db(file)
    /\ ret' = <<"_load_db", TRUE>>
    /\ msg' = "menu" /\ user_id' = None
    /\ UNCHANGED <<file, storeFrame>>
    /\ name' = "" /\ samples' = <<>>

\* the file is removed, or its content can no longer be read or parsed
Damage ==
    /\ \E kind \in {"missing", "unparsable"} :
          file' = IF kind = "missing" THEN NoFile
                  ELSE [ok |-> FALSE, data |-> file.data]
    /\ ret' = NoCall /\ msg' = "menu" /\ user_id' = None
    /\ UNCHANGED <<users, storeFrame>>
    /\ name' = "" /\ samples' = <<>>

\* UserManager.add_user(name, features) at time t
CallAddUser ==
    /\ Len(users) < MaxStored
    /\ \E nm \in Names, t \in StoreTimes, outcome \in SaveOutcomes :
          /\ users' = add_user(users, nm, Vec(<<2, 0>>), t)
          /\ file' = file_after_save(file, users', outcome)
          /\ ret' = <<"add_user", save_db(outcome)>>
          /\ user_id' = ToString(t)
    /\ msg' = "menu"
    /\ UNCHANGED storeFrame
    /\ name' = "" /\ samples' = <<>>

\* UserManager.delete_user(user_id)
CallDeleteUser ==
    /\ \E id \in StoreIds :
          /\ user_id' = id
          /\ IF id \in Ids(users)
             THEN \E outcome \in SaveOutcomes :
                     /\ users' = without_user(users, id)
                     /\ file' = file_after_save(file, users', outcome)
                     /\ ret' = <<"delete_user", save_db(outcome)>>
             ELSE /\ ret' = <<"delete_user", FALSE>>
                  /\ UNCHANGED <<users, file>>
    /\ msg' = "menu"
    /\ UNCHANGED storeFrame
    /\ name' = "" /\ samples' = <<>>

\* _manage_user_details(user_id) and _view_user_details(user_id), up to
\* the menu or the page they draw
CallShowUser ==
    /\ \E id \in StoreIds, h \in {"_manage_user_details", "_view_user_details"} :
          /\ user_id' = id
          /\ ret' = <<h, TRUE>>
          /\ msg' = IF ~found(users, id) THEN "user_not_exist"
                    ELSE IF h = "_view_user_details" THEN "user_details"
                    ELSE "menu"
    /\ UNCHANGED <<users, file, storeFrame>>
    /\ name' = "" /\ samples' = <<>>

\* _rename_user(user_id) with the text the input returns (kept in name)
CallRenameUser ==
    /\ \E id \in StoreIds, text \in Names \cup {""} :
          /\ user_id' = id
          /\ name' = text
          /\ ret' = <<"_rename_user", TRUE>>
          /\ IF ~found(users, id)
             THEN msg' = "user_not_exist" /\ UNCHANGED <<users, file>>
             ELSE IF rename_wanted(text, get_user(users, id).name)
             THEN \E outcome \in SaveOutcomes :
                     /\ users' = with_name(users, id, text)
                     /\ file' = file_after_save(file, users', outcome)
                     /\ msg' = IF save_db(outcome) THEN "renamed"
                                                   ELSE "save_failed"
             ELSE msg' = "menu" /\ UNCHANGED <<users, file>>
    /\ UNCHANGED storeFrame
    /\ samples' = <<>>

\* _recollect_user_features(user_id) with the samples its loop collects
\* (kept in samples)
CallRecollectUser ==
    /\ \E id \in StoreIds, smp \in StoreSamples :
          /\ user_id' = id
          /\ samples' = smp
          /\ ret' = <<"_recollect_user_features", TRUE>>
          /\ IF ~found(users, id)
             THEN msg' = "user_not_exist" /\ UNCHANGED <<users, file>>
             ELSE \E outcome \in SaveOutcomes :
                     /\ users' = with_features(users, id, mean_features(smp),
                                               Len(smp))
                     /\ file' = file_after_save(file, users', outcome)
                     /\ msg' = IF save_db(outcome) THEN "features_updated"
                                                   ELSE "save_failed"
    /\ UNCHANGED storeFrame
    /\ name' = ""

\* _delete_user(user_id) with the choice of its confirmation menu
CallDeleteHandler ==
    /\ \E id \in StoreIds, confirmed \in BOOLEAN :
          /\ user_id' = id
          /\ ret' = <<"_delete_user", TRUE>>
          /\ IF ~found(users, id)
             THEN msg' = "user_not_exist" /\ UNCHANGED <<users, file>>
             ELSE IF confirmed
             THEN \E outcome \in SaveOutcomes :
                     /\ users' = without_user(users, id)
                     /\ file' = file_after_save(file, users', outcome)
                     /\ msg' = IF save_db(outcome) THEN "deleted"
                                                   ELSE "delete_failed"
             ELSE msg' = "menu" /\ UNCHANGED <<users, file>>
    /\ UNCHANGED storeFrame
    /\ name' = "" /\ samples' = <<>>

NextStore ==
    \/ Restart
    \/ Damage
    \/ CallAddUser
    \/ CallDeleteUser
    \/ CallShowUser
    \/ CallRenameUser
    \/ CallRecollectUser
    \/ CallDeleteHandler

SpecStore == InitStore /\ [][NextStore]_vars

(***************************************************************************)
(* _liveness_detection on its own, with the sleep of the program: the      *)
(* check of a registration that has collected one sample, up to its return *)
(* and what _registration_mode does with the result.  Every pass is taken  *)
(* sooner or later (the loop has no wait other than its sleep).            *)
(***************************************************************************)
InitLive ==
    /\ pc = "liveness" /\ msg = "blink"
    /\ name = "Z" /\ samples = <<Vec(<<1>>)>>
    /\ now = 0 /\ start_time = 0 /\ eyes_detected = FALSE
    /\ blink_seen = "none"
    /\ liveness_timeout \in {0, LIVENESS_TIMEOUT}
    /\ last_state \in {[b \in Buttons |-> IF b = "back" THEN v ELSE 1] : v \in {0, 1}}
    /\ users = <<>> /\ file = NoFile /\ float_repr = "seven_digits"
    /\ InputParked /\ DraftParked
    /\ threshold = SIMILARITY_THRESHOLD
    /\ selected = 0 /\ options = MainOptions
    /\ cursor = 0 /\ user_id = None /\ current_threshold = 0
    /\ edges = {} /\ prev_selected = 0 /\ choice = Showing /\ action_map = {}
    /\ frame = <<>> /\ chosen = NoFace
    /\ probe = NoFeatures /\ best_match = None /\ label = ""
    /\ ButtonParked /\ ret = NoCall

LivePass == LivenessStep(LivenessSleep, TRUE, TRUE)

NextLive == LivePass

SpecLive == InitLive /\ [][NextLive]_vars /\ WF_vars(LivePass)

(***************************************************************************)
(* The choice of the face on its own: a snapshot for which detect_faces    *)
(* returns any list of rectangles, then the max() of the sample loop.      *)
(***************************************************************************)
MaxSeen == 3
FaceRects == [x : {0, 1}, w : {60, 100}, h : {60, 100}]
SeenLists == UNION {[1..n -> FaceRects] : n \in 0..MaxSeen}

InitFace ==
    /\ frame = <<>> /\ chosen = NoFace /\ blink_seen = "none"
    /\ pc = "off" /\ file = NoFile /\ name = "" /\ samples = <<>>
    /\ msg = "" /\ start_time = 0 /\ eyes_detected = FALSE
    /\ liveness_timeout = 0
    /\ cursor = 0 /\ user_id = None /\ current_threshold = 0
    /\ float_repr = "seven_digits" /\ InputParked /\ DraftParked
    /\ MatchParked /\ ButtonParked /\ MenuParked
    /\ users = <<>> /\ selected = 0 /\ options = 1 /\ now = 0
    /\ ret = NoCall /\ last_state = [b \in Buttons |-> 1]

faceFrame ==
    <<pc, file, name, samples, msg, start_time, eyes_detected,
      liveness_timeout, cursor, user_id, current_threshold, float_repr,
      current_text, page, user_db,
      blink_seen, matchOnly, buttonOnly, menuOnly, users, selected, options,
      now, ret, last_state>>

\* img = sensor.snapshot(); faces = self.face_detector.detect_faces(img)
Snapshot ==
    /\ chosen # NoFace \/ frame = <<>>
    /\ frame' \in SeenLists
    /\ chosen' = NoFace
    /\ UNCHANGED faceFrame

\* if faces: face = max(faces, key=lambda f: f[2] * f[3])
ChooseFace ==
    /\ frame # <<>> /\ chosen = NoFace
    /\ chosen' = MaxFace(frame)
    /\ UNCHANGED <<frame, faceFrame>>

NextFace == Snapshot \/ ChooseFace

SpecFace == InitFace /\ [][NextFace]_vars

(***************************************************************************)
(* Properties of registration and re-collection.                           *)
(***************************************************************************)
\* the steps in which _registration_mode returns from add_user
RegistrationCommits == pc = "liveness" /\ msg' \in {"registered", "register_failed"}
\* the steps in which _recollect_user_features has set the new features
RecollectionCommits == pc = "recollect_done" /\ msg' \in {"features_updated", "save_failed"}

\* C18: when the backing file is missing, unreadable or unparsable, loading
\* yields the empty store and start-up goes on to the menu.
C18_BadFileLoadsEmpty ==
    [][(ret' = <<"_load_db", TRUE>> /\ ~file.ok)
        => (users' = <<>> /\ msg' = "menu")]_vars
C18_Witness ==
    /\ ret = <<"_load_db", TRUE>> /\ ~file.ok /\ file.data # <<>>
    /\ users = <<>> /\ msg = "menu"

\* C19: a store written by a successful save_db and read back by _load_db has
\* the same ids and, for each id, the same name, descriptor, registration
\* timestamp and sample count.
C19_SaveLoadRoundTrip ==
    load_db(file_after_save(file, users, "saved")) = users

\* C20: a handler of the user menu called with an id that is not in the store
\* reports that the user does not exist and changes neither the store nor the
\* file; delete_user on such an id returns False without saving.
C20_AbsentIdChangesNothing ==
    /\ [][(ret'[1] \in Handlers /\ user_id' \notin Ids(users))
           => (msg' = "user_not_exist" /\ UNCHANGED <<users, file>>)]_vars
    /\ [][(ret'[1] = "delete_user" /\ user_id' \notin Ids(users))
           => (ret'[2] = FALSE /\ UNCHANGED <<users, file>>)]_vars
C20_Witness ==
    /\ ret = <<"_rename_user", TRUE>> /\ msg = "user_not_exist"
    /\ users # <<>> /\ user_id \notin Ids(users) /\ file.ok
    /\ load_db(file) # users

\* C1: when save_db fails inside add_user, the store is left as it was
\* before the call (the new id is not in it) and the failure is reported.
C1_FailedAddLeavesStore ==
    [][(pc = "liveness" /\ msg' = "register_failed") => users' = users]_vars

\* C4: a registration that commits after N accepted samples creates a
\* record whose samples_count is N.
C4_SampleCountIsN ==
    [][(pc = "liveness" /\ msg' = "registered")
        => get_user(users', ToString(now)).samples_count = Len(samples)]_vars

\* features is the element-wise mean of smp: features[i] * N is the sum of
\* the i-th elements, and N identical samples give that sample back
IsMean(features, smp) ==
    /\ Len(features) = Len(smp[1])
    /\ \A i \in 1..Len(features) :
          RMul(features[i], RInt(Len(smp)))
             = RSum([k \in 1..Len(smp) |-> smp[k][i]], Len(smp))
    /\ (\A k \in 1..Len(smp) : smp[k] = smp[1]) => features = smp[1]

\* C5: a registration or re-collection that commits with N accepted samples
\* stores the element-wise mean of the N samples, over the length of the
\* first sample (a commit happens only when no sample is shorter than the
\* first, so samples of equal length are covered); N identical samples v
\* give v.
C5_DescriptorIsMean ==
    [][/\ RegistrationCommits
          => IsMean(get_user(users', ToString(now)).features, samples)
       /\ RecollectionCommits
          => IsMean(get_user(users', user_id).features, samples)]_vars

\* a registration has stored the mean of (2,0), (2,0), (0,1)
C5_Witness ==
    /\ msg = "registered"
    /\ \E i \in 1..Len(users) :
          /\ users[i].id = ToString(now)
          /\ users[i].features = <<Rat(4, 3), Rat(1, 3)>>

\* C9: an is_pressed edge of back during sample collection ends the
\* session at once and without a commit, whatever the number of samples.
C9_BackAbortsCollection ==
    [][(pc \in {"collect", "recollect"} /\ "back" \in edges')
        => (pc' \in {"main_menu", "manage_users"} /\ UNCHANGED <<users, file>>)]_vars

\* samples that a truth test accepts
AcceptedCount(smp) == Cardinality({k \in 1..Len(smp) : smp[k] # NoFeatures})
InEnrollment ==
    pc \in {"name_input", "collect", "liveness", "recollect", "recollect_done"}

\* C10: while a session has accepted no sample, no step changes the store
\* in memory or the file.
C10_NoSamplesNoChange ==
    [][(InEnrollment /\ AcceptedCount(samples) = 0)
        => UNCHANGED <<users, file>>]_vars

\* a back edge and a failed extraction were seen, and no sample is held
C10_Witness ==
    /\ pc = "collect" /\ samples = <<>>
    /\ edges = {"back"} /\ msg = "no_features"

(***************************************************************************)
(* Properties of the store under failing saves and of the ids.             *)
(***************************************************************************)
\* C11: when save_db fails inside delete_user, the store still holds the
\* id with its record unchanged (and the failure is reported).
C11_FailedDeleteLeavesStore ==
    [][(pc = "confirm_delete" /\ msg' = "delete_failed") => users' = users]_vars

\* C12: when save_db fails after a rename or after a re-collection has
\* replaced the features, the record is as it was before the update.
C12_FailedUpdateRestoresRecord ==
    [][(pc \in {"rename_input", "recollect_done"} /\ msg' = "save_failed")
        => users' = users]_vars

\* C13: a confirmed reset whose save succeeds leaves the store and the file
\* empty; one whose save fails leaves the store as it was before the reset.
C13_ResetAllOrNothing ==
    [][(pc = "confirm_reset" /\ msg' \in {"reset", "reset_failed"})
        => IF msg' = "reset"
           THEN users' = <<>> /\ file'.ok /\ load_db(file') = <<>>
           ELSE users' = users]_vars

\* C14: a successful add_user keeps every record of the store it was
\* called on and makes the store one record longer.
C14_AddNeverCollides ==
    [][(pc = "liveness" /\ msg' = "registered")
        => /\ Len(users') = Len(users) + 1
           /\ \A i \in 1..Len(users) : users'[i] = users[i]]_vars

C16_RecognitionUsesConfiguredThreshold ==
    [][(pc = "recognition" /\ pc' = "recognition")
        => best_match' = find_user_by_features(users, probe', threshold)]_vars

\* C17: whatever is done in the threshold screen, the configured threshold
\* is a whole number of tenths from 0.1 to 1.0, and a back edge in the
\* screen leaves it as it was.
C17_ThresholdInRange ==
    /\ [](threshold \in MinThreshold..MaxThreshold)
    /\ [][(pc = "adjust_threshold" /\ "back" \in edges')
           => threshold' = threshold]_vars

\* the upper end of the range has been set
C17_Witness ==
    pc = "main_menu" /\ msg = "threshold_set" /\ threshold = MaxThreshold

(***************************************************************************)
(* Properties of enrollment: the liveness gate and the sample loop.        *)
(***************************************************************************)
\* the steps in which an enrollment changes the store
EnrollmentMutates ==
    /\ pc \in {"liveness", "recollect_done"}
    /\ users' # users
\* the steps in which _liveness_detection returns True: the eyes were seen
\* before, the timeout has not elapsed and the check did not fail
LivenessPasses ==
    /\ pc = "liveness" /\ eyes_detected
    /\ liveness_open(now, start_time, liveness_timeout)
    /\ msg' # "liveness_failed"

\* C23: a store mutation made by an enrollment (add_user of a registration,
\* or the new descriptor of a re-enrollment) happens only after the liveness
\* check of that enrollment has passed.
C23_CommitAfterLiveness ==
    [][EnrollmentMutates => LivenessPasses]_vars

\* C24: in a pass of the sample loop the number of samples grows by exactly
\* one if and only if a face was detected, the up edge fired, the selected
\* face is at least 80 wide and 80 high and the descriptor returned is not
\* empty; otherwise the sample list is unchanged.
C24_SampleTakenIff ==
    pc \in {"collect", "recollect"} =>
        \A in \in CollectInputs :
            LET p == collect_pass(samples, last_state, msg,
                                  in.faces, in.up, in.features, in.back)
                captured ==
                    /\ in.faces # <<>>
                    /\ is_pressed(last_state["up"], in.up[1], in.up[2])
                    /\ MaxFace(in.faces).w >= 80 /\ MaxFace(in.faces).h >= 80
                    /\ in.features # <<>>
            IN  IF captured
                THEN p.samples = Append(samples, in.features)
                ELSE p.samples = samples

\* C24 witness: the pass before has appended the second sample
C24_Witness ==
    /\ pc = "collect" /\ msg = "sample_taken" /\ edges = {"up"}
    /\ Len(samples) = 2

\* the steps in which the sample loop is left
CollectionEnds ==
    /\ pc \in {"collect", "recollect"}
    /\ pc' \notin {"collect", "recollect"}

\* C25: the sample loop ends only with 5 samples or on a back edge with at
\* least one sample, so it ends with 1..5 samples; a back edge with no
\* sample does not end it.
C25_CollectionEnd ==
    /\ [][CollectionEnds =>
            /\ \/ Len(samples') = 5
               \/ ("back" \in edges' /\ Len(samples') >= 1)
            /\ Len(samples') \in 1..5]_vars
    /\ [][(pc \in {"collect", "recollect"} /\ "back" \in edges' /\ samples' = <<>>)
            => pc' = pc]_vars

\* C25 witness: the loop has ended on a back edge with fewer than 5 samples
C25_Witness ==
    /\ pc = "liveness" /\ edges = {"back"} /\ msg = "blink"
    /\ Len(samples) \in 1..4 /\ now = start_time

\* C26: of several faces the sample loop takes one of largest width*height,
\* and among faces of that largest area the first in the detector's order.
Area(f) == f.w * f.h
C26_LargestFirstFace ==
    chosen # NoFace =>
        \E k \in 1..Len(frame) :
            /\ chosen = frame[k]
            /\ \A j \in 1..Len(frame) : Area(frame[j]) <= Area(frame[k])
            /\ \A j \in 1..(k - 1) : Area(frame[j]) < Area(frame[k])

\* C26 witness: two different faces share the largest area, behind a
\* smaller one, and the first of the two was taken
C26_Witness ==
    /\ Len(frame) = 3 /\ chosen = frame[2] /\ frame[2] # frame[3]
    /\ Area(frame[1]) < Area(frame[2]) /\ Area(frame[3]) = Area(frame[2])

(***************************************************************************)
(* Frame conditions of the handlers that edit a record.                    *)
(***************************************************************************)
\* C27: a re-enrollment that ends with N samples sets the descriptor of the
\* record to the mean of those N samples alone and its sample count to N;
\* the id, name and registration timestamp of the record and all other
\* records are unchanged.
C27_ReenrollFrame ==
    [][(ret' = <<"_recollect_user_features", TRUE>> /\ user_id' \in Ids(users))
        => /\ Len(users') = Len(users)
           /\ \A i \in 1..Len(users) :
                IF users[i].id = user_id'
                THEN /\ IsMean(users'[i].features, samples')
                     /\ users'[i].samples_count = Len(samples')
                     /\ users'[i].id = users[i].id
                     /\ users'[i].name = users[i].name
                     /\ users'[i].registered_at = users[i].registered_at
                ELSE users'[i] = users[i]]_vars

\* C27 witness: of two records the second was re-enrolled with three samples
C27_Witness ==
    /\ ret = <<"_recollect_user_features", TRUE>> /\ msg = "features_updated"
    /\ Len(users) = 2 /\ users[2].id = user_id /\ Len(samples) = 3
    /\ users[2].samples_count = 3 /\ users[1].samples_count = 1
    /\ users[2].name = "QS"

\* C28: a rename changes the name of the addressed record and nothing else;
\* when the input is empty or equal to the current name, neither the store
\* nor the file is touched.
C28_RenameFrame ==
    [][(ret' = <<"_rename_user", TRUE>> /\ user_id' \in Ids(users))
        => /\ Len(users') = Len(users)
           /\ \A i \in 1..Len(users) :
                IF users[i].id = user_id'
                THEN /\ users'[i] = [users[i] EXCEPT !.name = users'[i].name]
                     /\ users'[i].name \in {users[i].name, name'}
                ELSE users'[i] = users[i]
           /\ (name' = "" \/ name' = get_user(users, user_id').name)
                 => UNCHANGED <<users, file>>]_vars

\* C28 witness: of two records the first was renamed and the save succeeded
C28_Witness ==
    /\ ret = <<"_rename_user", TRUE>> /\ msg = "renamed" /\ name = "QS"
    /\ Len(users) = 2 /\ users[1].id = user_id /\ users[1].name = "QS"
    /\ users[2].name = "Z" /\ users[1].samples_count = 3

(***************************************************************************)
(* Properties of the liveness check.                                       *)
(***************************************************************************)
\* C29: with the clock advancing by the sleep on every pass, the liveness
\* check returns after at most timeout/sleep passes, whatever the camera
\* shows and the buttons do.
C29_LivenessTerminates ==
    /\ [](pc = "liveness" =>
            /\ (now - start_time) % LivenessSleep = 0
            /\ (now - start_time) \div LivenessSleep
                  <= liveness_timeout \div LivenessSleep)
    /\ (pc = "liveness") ~> (pc # "liveness")

\* C29 witness: the check has run for the whole timeout, 50 passes
C29_Witness ==
    /\ pc = "main_menu" /\ msg = "liveness_failed" /\ edges = {}
    /\ liveness_timeout = LIVENESS_TIMEOUT
    /\ now = 50 * LivenessSleep

\* C30: the liveness check passes if and only if, before the timeout and
\* before a back edge, a snapshot showed a face with eyes and a later one a
\* face without eyes; a timeout or a back edge before that fails it.
C30_PassedIffBlink ==
    /\ [][(pc = "liveness" /\ pc' # "liveness")
            => (msg' # "liveness_failed" <=> blink_seen' = "blinked")]_vars
    /\ [][(/\ pc = "liveness"
           /\ \/ ~liveness_open(now, start_time, liveness_timeout)
              \/ "back" \in edges')
            => (blink_seen' # "blinked" /\ msg' = "liveness_failed")]_vars

\* C30 witness: the eyes were seen and never vanished, and the check has
\* failed at the timeout
C30_Witness ==
    /\ pc = "main_menu" /\ msg = "liveness_failed" /\ blink_seen = "eyes"
    /\ edges = {} /\ now = LIVENESS_TIMEOUT

(***************************************************************************)
(* ChineseInput.input (SpecInput).  A character is the pair of its page     *)
(* and its place on the page; a text is a sequence of characters, the      *)
(* empty text "" being <<>>.  One action is one pass of the loop, by the   *)
(* branch the button polls select; a pass in which no poll answers only    *)
(* sleeps and is a stuttering step.                                        *)
(***************************************************************************)
max_length == 8
\* len(CHAR_SETS)
Pages == 8
\* len(CHAR_SETS[page]), 16 in the program
CharsPerPage == 3
CHAR_SETS(p, k) == <<p, k>>

\* the guard of the select branch without its length test
can_append_always(text) == page < Pages
can_append(text) == page < Pages /\ Len(text) < max_length

InitInput ==
    /\ pc = "input" /\ current_text = <<>> /\ page = 0 /\ selected = 0
    /\ name = <<>> /\ msg = "input" /\ ret = NoCall /\ DraftParked
    /\ file = NoFile /\ samples = <<>> /\ start_time = 0
    /\ eyes_detected = FALSE /\ liveness_timeout = 0
    /\ cursor = 0 /\ user_id = None /\ current_threshold = 0
    /\ float_repr = "seven_digits"
    /\ frame = <<>> /\ chosen = NoFace /\ blink_seen = "none"
    /\ MatchParked /\ ButtonParked /\ MenuParked
    /\ users = <<>> /\ options = 1 /\ now = 0
    /\ last_state = [b \in Buttons |-> 1]

inputFrame ==
    <<file, samples, start_time, eyes_detected, liveness_timeout, cursor,
      user_id, current_threshold, float_repr, frame, chosen, blink_seen,
      matchOnly, buttonOnly, menuOnly, users, options, now, last_state, page,
      user_db>>

\* buttons["up"].is_pressed()
InputUp ==
    /\ pc = "input"
    /\ selected' = (selected - 1) % CharsPerPage
    /\ msg' = "input"
    /\ UNCHANGED <<pc, current_text, name, ret, inputFrame>>

\* buttons["down"].is_pressed()
InputDown ==
    /\ pc = "input"
    /\ selected' = (selected + 1) % CharsPerPage
    /\ msg' = "input"
    /\ UNCHANGED <<pc, current_text, name, ret, inputFrame>>

\* buttons["select"].is_pressed()
InputSelect ==
    /\ pc = "input"
    /\ current_text' = IF can_append(current_text)
                          THEN Append(current_text, CHAR_SETS(page, selected))
                          ELSE current_text
    /\ msg' = "input"
    /\ UNCHANGED <<pc, selected, name, ret, inputFrame>>

\* buttons["back"].is_pressed(): the last character is dropped, or the input
\* is cancelled with ""; the caller assigns the result and returns on ""
InputBack ==
    /\ pc = "input"
    /\ IF current_text # <<>>
         THEN /\ current_text' = SubSeq(current_text, 1, Len(current_text) - 1)
              /\ msg' = "input"
              /\ UNCHANGED <<pc, name, ret>>
         ELSE /\ ret' = <<"input", <<>>>>
              /\ name' = <<>>
              /\ pc' = "cancelled"
              /\ msg' = "menu"
              /\ UNCHANGED current_text
    /\ UNCHANGED <<selected, inputFrame>>

\* up and down both long pressed: the text is returned, an empty one refused;
\* the caller assigns the result to its name
InputConfirm ==
    /\ pc = "input"
    /\ IF current_text # <<>>
         THEN /\ ret' = <<"input", current_text>>
              /\ name' = current_text
              /\ pc' = "named"
              /\ msg' = "menu"
         ELSE /\ msg' = "name_empty"
              /\ UNCHANGED <<pc, name, ret>>
    /\ UNCHANGED <<current_text, selected, inputFrame>>

\* a handler creates a ChineseInput and calls input again
CallInput ==
    /\ pc \in {"named", "cancelled"}
    /\ pc' = "input" /\ current_text' = <<>> /\ selected' = 0
    /\ name' = <<>> /\ msg' = "input" /\ ret' = NoCall
    /\ UNCHANGED inputFrame

NextInput ==
    \/ InputUp
    \/ InputDown
    \/ InputSelect
    \/ InputBack
    \/ InputConfirm
    \/ CallInput

SpecInput == InitInput /\ [][NextInput]_vars

\* C34: a name that registration or rename goes on with has 1 to 8
\* characters: input returns "" (on which the handler returns, storing
\* nothing) or a text of 1 to 8 characters, whatever the buttons did.
C34_NameLength ==
    /\ pc = "cancelled" => ret = <<"input", <<>>>>
    /\ pc = "named" => /\ ret = <<"input", name>>
                       /\ Len(name) \in 1..max_length

\* C34 witness: a name of eight characters was returned
C34_Witness == pc = "named" /\ Len(name) = max_length

(***************************************************************************)
(* The first draft, src/人脸识别-1.py (SpecDraft1): main, main_menu,        *)
(* registration_mode, manage_users and delete_user over the global         *)
(* user_db and the file.  is_button_pressed waits for the release, so a    *)
(* pass of a menu loop is given by the button that answered; a function    *)
(* without a menu of its own is one step, its inputs being what the user   *)
(* typed, the samples taken, the result of the liveness check, the tick    *)
(* read for the id and the outcome of the write.                           *)
(***************************************************************************)
\* the record registration_mode stores under user_id
UserRecord1(id, nm, descriptor, t, count) ==
    [id |-> id, name |-> nm, descriptor |-> descriptor,
     registration_time |-> t, samples_count |-> count]

\* json.dump(user_db, f) and json.load(f)
json_dump1(dict) ==
    [i \in 1..Len(dict) |->
        [key |-> dict[i].id,
         value |-> [name |-> JString(dict[i].name),
                    descriptor |-> [k \in 1..Len(dict[i].descriptor) |->
                                        JFloat(dict[i].descriptor[k])],
                    registration_time |-> JString(dict[i].registration_time),
                    samples_count |-> JInt(dict[i].samples_count)]]]
json_load1(text) ==
    [i \in 1..Len(text) |->
        UserRecord1(text[i].key,
                    text[i].value.name.text,
                    [k \in 1..Len(text[i].value.descriptor) |->
                         text[i].value.descriptor[k].value],
                    text[i].value.registration_time.text,
                    parse_int(text[i].value.samples_count))]

\* the module-level try: json.load, except: user_db = {}
load_user_db(f) == IF f.ok THEN json_load1(f.data) ELSE <<>>

\* "with open(USER_DB_PATH, 'w') as f: json.dump(user_db, f)" in a try
file_after_dump1(f, dict, outcome) ==
    CASE outcome = "saved" -> [ok |-> TRUE, data |-> json_dump1(dict)]
      [] outcome = "open_failed" -> f
      [] outcome = "write_failed" -> NoFile

\* the last tick of the clock of the draft
MaxTick1 == 2
\* the options of main_menu
MainOptions1 == 4
\* the sample lists a registration may end with
Samples1 ==
    {<<Vec(<<2, 0>>)>>, <<Vec(<<2, 0>>), Vec(<<0, 1>>)>>}

\* "if user_id in user_db: del user_db[user_id]" after a failed write, and
\* an undo that puts back the dict as it was before the assignment
undo_restoring(before, after, id) == before
undo_insert(before, after, id) == without_user(after, id)

InitialFiles1 ==
    {NoFile,
     [ok |-> TRUE, data |->
        json_dump1(<<UserRecord1("1", "Z", Vec(<<2, 0>>), "1", 1)>>)],
     [ok |-> TRUE, data |->
        json_dump1(<<UserRecord1("2", "QS", Vec(<<0, 1>>), "2", 2)>>)]}

InitDraft1 ==
    /\ pc = "main_menu" /\ msg = "ready"
    /\ float_repr = "seven_digits"
    /\ file \in InitialFiles1
    /\ user_db = load_user_db(file)
    /\ selected = 0 /\ cursor = 0 /\ user_id = None /\ now = 0
    /\ name = "" /\ samples = <<>> /\ ret = NoCall
    /\ start_time = 0 /\ eyes_detected = FALSE /\ liveness_timeout = 0
    /\ current_threshold = 0 /\ InputParked
    /\ frame = <<>> /\ chosen = NoFace /\ blink_seen = "none"
    /\ MatchParked /\ ButtonParked /\ MenuParked
    /\ users = <<>> /\ options = MainOptions1
    /\ last_state = [b \in Buttons |-> 1]

draftFrame ==
    <<start_time, eyes_detected, liveness_timeout, current_threshold,
      float_repr, current_text, page, frame, chosen, blink_seen, matchOnly,
      buttonOnly, menuOnly, users, options, last_state>>

\* main: main_menu() through button_menu, one pass; on its return the
\* branch of main taken for the choice
MainMenu1 ==
    /\ pc = "main_menu"
    /\ \E fired \in Buttons :
          CASE fired = "up" ->
                 /\ selected' = (selected - 1) % MainOptions1
                 /\ Screen("main_menu", "menu")
                 /\ UNCHANGED <<ret, cursor>>
            [] fired = "down" ->
                 /\ selected' = (selected + 1) % MainOptions1
                 /\ Screen("main_menu", "menu")
                 /\ UNCHANGED <<ret, cursor>>
            [] fired = "back" ->
                 /\ ret' = <<"main_menu", -1>>
                 /\ selected' = 0
                 /\ Screen("main_menu", "menu")
                 /\ UNCHANGED cursor
            [] fired = "select" ->
                 /\ ret' = <<"main_menu", selected>>
                 /\ selected' = 0 /\ cursor' = 0
                 /\ CASE selected = 0 -> Screen("recognition", "recognising")
                      [] selected = 1 -> Screen("registration", "register")
                      [] selected = 2 -> Screen("manage_users", "menu")
                      [] selected = 3 -> Screen("closed", "closed")
    /\ UNCHANGED <<user_db, file, now, name, samples, user_id, draftFrame>>

\* main, choice == 0: the recognition loop is left on select
Recognition1 ==
    /\ pc = "recognition"
    /\ Screen("main_menu", "recognition_left")
    /\ UNCHANGED <<selected, cursor, ret, user_db, file, now, name, samples,
                   user_id, draftFrame>>

\* registration_mode
Registration1 ==
    /\ pc = "registration"
    /\ pc' = "main_menu"
    /\ \E nm \in Names \cup {""} :
          IF nm = ""
          THEN /\ msg' = "register_cancelled"
               /\ ret' = <<"registration_mode", FALSE>>
               /\ UNCHANGED <<user_db, file, now, name, samples, user_id>>
          ELSE \E smp \in Samples1, passed \in BOOLEAN :
                 IF ~passed
                 THEN /\ msg' = "liveness_failed"
                      /\ ret' = <<"registration_mode", FALSE>>
                      /\ UNCHANGED <<user_db, file, now, name, samples, user_id>>
                 ELSE \E t \in (now + 1)..MaxTick1, outcome \in SaveOutcomes :
                        LET id == ToString(t)
                            inserted ==
                                StorePut(user_db, id,
                                         UserRecord1(id, nm, mean_features(smp),
                                                     ToString(t), Len(smp)))
                        IN
                        /\ now' = t
                        /\ name' = nm /\ samples' = smp /\ user_id' = id
                        /\ file' = file_after_dump1(file, inserted, outcome)
                        /\ IF outcome = "saved"
                           THEN /\ user_db' = inserted
                                /\ msg' = "registered"
                                /\ ret' = <<"registration_mode", TRUE>>
                           ELSE /\ user_db' = undo_insert(user_db, inserted, id)
                                /\ msg' = "save_failed"
                                /\ ret' = <<"registration_mode", FALSE>>
    /\ UNCHANGED <<selected, cursor, draftFrame>>

\* manage_users: the empty list, or one pass of the selection loop
ManageUsers1 ==
    /\ pc = "manage_users"
    /\ IF user_db = <<>>
       THEN /\ Screen("main_menu", "no_users")
            /\ UNCHANGED <<cursor, user_id>>
       ELSE \E fired \in Buttons :
              CASE fired = "up" ->
                     /\ cursor' = (cursor - 1) % (Len(user_db) + 1)
                     /\ Screen("manage_users", "menu")
                     /\ UNCHANGED user_id
                [] fired = "down" ->
                     /\ cursor' = (cursor + 1) % (Len(user_db) + 1)
                     /\ Screen("manage_users", "menu")
                     /\ UNCHANGED user_id
                [] fired = "select" ->
                     /\ cursor' = 0
                     /\ IF cursor < Len(user_db)
                        THEN Screen("manage_users", "details")
                        ELSE Screen("main_menu", "menu")
                     /\ UNCHANGED user_id
                [] fired = "back" ->
                     /\ cursor' = 0
                     /\ IF cursor < Len(user_db)
                        THEN /\ Screen("confirm_delete", "menu")
                             /\ user_id' = user_db[cursor + 1].id
                        ELSE /\ Screen("manage_users", "menu")
                             /\ UNCHANGED user_id
    /\ UNCHANGED <<selected, ret, user_db, file, now, name, samples, draftFrame>>

\* delete_user: up confirms, back cancels
DeleteUser1 ==
    /\ pc = "confirm_delete"
    /\ \/ \E outcome \in SaveOutcomes :
            /\ user_db' = without_user(user_db, user_id)
            /\ file' = file_after_dump1(file, user_db', outcome)
            /\ Screen("manage_users",
                      IF outcome = "saved" THEN "deleted" ELSE "delete_failed")
       \/ /\ Screen("manage_users", "delete_cancelled")
          /\ UNCHANGED <<user_db, file>>
    /\ user_id' = None
    /\ UNCHANGED <<selected, cursor, ret, now, name, samples, draftFrame>>

NextDraft1 ==
    \/ MainMenu1
    \/ Recognition1
    \/ Registration1
    \/ ManageUsers1
    \/ DeleteUser1

SpecDraft1 == InitDraft1 /\ [][NextDraft1]_vars

(***************************************************************************)
(* Properties of the handlers as a whole.                                  *)
(***************************************************************************)
\* the messages shown on the value save_db returned
SavedReports == {"registered", "renamed", "features_updated", "deleted", "reset"}
FailedReports == {"register_failed", "save_failed", "delete_failed", "reset_failed"}

\* C32: every mutation of the in-memory store (add, rename, new descriptor,
\* delete, reset) is followed by a save attempt before a menu is shown again:
\* the step that changes the store ends on the report of save_db, with the
\* file holding the new store when it succeeded and the old content or a
\* truncated file when it failed.
C32_MutationThenSave ==
    [][users' # users
        => \/ /\ msg' \in SavedReports
              /\ file' = [ok |-> TRUE, data |-> json_dump(users')]
           \/ /\ msg' \in FailedReports
              /\ file' \in {file, NoFile}]_vars

\* C32 witness: a rename has changed the store and the file holds the new
\* store, which the file did not hold before (it was written at the rename)
C32_Witness ==
    /\ pc = "manage_users" /\ msg = "renamed"
    /\ Len(users) = 1 /\ users[1].name = "QS" /\ users[1].id = "1"
    /\ file = [ok |-> TRUE, data |-> json_dump(users)]

\* the samples of the enrollment do not all have the same length
MixedLengths(smp) ==
    \E j, k \in 1..Len(smp) : Len(smp[j]) # Len(smp[k])

\* C33: when the accepted samples of an enrollment differ in length, the
\* enrollment commits nothing: no record is added or updated, whichever
\* sample is the shorter one.
C33_MixedLengthsNeverCommit ==
    [][(pc \in {"liveness", "recollect_done"} /\ MixedLengths(samples))
        => users' = users]_vars

\* C35: recognition mode never changes the store or the file; a face is
\* labelled with a stored name only when the matcher returned the id of the
\* record of that name for its descriptor, and a face whose descriptor is
\* None is labelled unknown.
C35_RecognitionReadsOnly ==
    [][pc = "recognition"
        => /\ users' = users /\ file' = file
           /\ label' \notin {"", "unknown"}
                => /\ best_match' =
                        find_user_by_features(users, probe', SIMILARITY_THRESHOLD)
                   /\ \E i \in 1..Len(users) :
                        users[i].id = best_match' /\ users[i].name = label'
           /\ (label' # "" /\ probe' = NoFeatures) => label' = "unknown"]_vars

\* C35 witness: a face was labelled with the name of the second record, the
\* one the matcher returned
C35_Witness ==
    /\ pc = "recognition" /\ Len(users) = 2
    /\ best_match = users[2].id /\ label = users[2].name
    /\ users[1].name # users[2].name

\* C35 witness of the other label: a face without descriptor labelled unknown
C35_WitnessUnknown ==
    pc = "recognition" /\ users # <<>> /\ probe = NoFeatures /\ label = "unknown"

\* C36: delete and reset change the store only after the confirmation: in a
\* confirmation menu the store and the file change only on select of its
\* first option, cancel and back leave both as they were, and no other step
\* removes a record.
C36_OnlyAfterConfirmation ==
    [][/\ (pc \in {"confirm_delete", "confirm_reset"}
             /\ (users' # users \/ file' # file))
          => (edges' = {"select"} /\ cursor = 0)
       /\ Len(users') < Len(users)
          => pc \in {"confirm_delete", "confirm_reset"}]_vars

\* C36 witness: a confirmed deletion took the record and the file was written
C36_Witness ==
    /\ pc = "manage_users" /\ msg = "deleted" /\ edges = {"select"}
    /\ file = [ok |-> TRUE, data |-> json_dump(users)]

\* C36 witness: a confirmed reset emptied the store and the file
C36_WitnessReset ==
    /\ pc = "main_menu" /\ msg = "reset" /\ users = <<>>
    /\ file = [ok |-> TRUE, data |-> json_dump(<<>>)]

\* C37: while the liveness timeout is 0 the liveness check fails at once,
\* without a snapshot, a poll of back or a sleep, and so no registration
\* adds a record until the setting is switched on again.
C37_SwitchedOffBlocksRegistration ==
    [][liveness_timeout = 0
        => /\ pc = "liveness"
                => /\ pc' = "main_menu" /\ msg' = "liveness_failed"
                   /\ last_state' = last_state /\ now' = now
                   /\ users' = users /\ file' = file
           /\ Len(users') <= Len(users)
           /\ msg' # "registered"]_vars

\* C37 witness: a registration with samples collected has failed its
\* liveness check while the timeout was 0
C37_Witness ==
    pc = "main_menu" /\ msg = "liveness_failed" /\ liveness_timeout = 0

\* the last option of the main menu of the class-based draft: "exit"
ExitOption == MainOptions - 1

ExitOption1 == MainOptions1 - 1

\* C38, the first draft: selecting exit ends the main loop (nothing follows),
\* and back shows the main menu again.
C38_Draft1ExitEnds ==
    [][/\ (pc = "main_menu" /\ ret' = <<"main_menu", ExitOption1>>)
          => pc' = "closed"
       /\ (pc = "main_menu" /\ ret' = <<"main_menu", -1>>) => pc' = "main_menu"
       /\ pc # "closed"]_vars

\* C38 witness, the first draft: the main loop has ended
C38_WitnessDraft1 == pc = "closed" /\ msg = "closed"

\* C39: when the write of the file fails after registration_mode of the
\* first draft has put the new record into user_db, user_db is afterwards
\* what it was before the enrollment started, also when the id generated
\* from the clock is the id of a record already there.
C39_FailedWriteRestores ==
    [][(pc = "registration" /\ msg' = "save_failed") => user_db' = user_db]_vars

\* C39, the part that holds: a failed write after the insertion of a record
\* under a new id leaves user_db as it was
C39_FailedWriteRestoresNewId ==
    [][(pc = "registration" /\ msg' = "save_failed"
          /\ user_id' \notin Ids(user_db))
        => user_db' = user_db]_vars

\* C39 witness of that part: a write failed for a new id with a record stored
C39_WitnessNewId ==
    /\ pc = "main_menu" /\ msg = "save_failed" /\ user_db # <<>>
    /\ user_id \notin Ids(user_db)

====
